---- MODULE Spec2Model ----
(***************************************************************************)
(* Model of the multi-room TCP chat server: the room manager               *)
(* (chat_room.cpp), the transport (iocp_server.cpp), the worker pool       *)
(* (thread_pool.cpp/.h) and the dispatcher callbacks (server.cpp).         *)
(***************************************************************************)
EXTENDS Integers, Sequences, FiniteSets, TLC

\* ------------------------------------------------------------------------
\* Bounds of the model
\* ------------------------------------------------------------------------
NumClients == 2        \* client ids 1..NumClients
NumThreads == 2        \* threads calling the room manager API directly
NumPoolWorkers == 2    \* ThreadPool workers
MaxChunks == 2         \* inbound chunks delivered over a run

\* ConnectionManager::Config, configured small
max_total_connections == 2
max_connections_per_second == 2
max_messages_per_minute == 2
connection_timeout_seconds == 1

MaxAdvances == 2       \* number of times the clock advances over a run

\* MessageStore::Config::max_messages_per_room, configured small
max_messages_per_room == 2
MaxStores == 4         \* messages stored to one room between two Clear calls
\* MessageStore::Config::max_file_size_mb * 1024 * 1024, configured small
max_file_size == 2
MaxDays == 2           \* calendar days a run spans

Clients     == 1..NumClients
Threads     == 1..NumThreads
PoolWorkers == 1..NumPoolWorkers
AdminId     == 0
Ids         == {AdminId} \cup Clients
RoomNames   == {"general", "a"}
Passwords   == {"", "pw"}
NoThread    == 0
Stoppers    == {"console"}     \* threads that call IOCPServer::Stop
NumIOWorkers == 2      \* IOCPServer::io_workers.size()
IOWorkers   == 1..NumIOWorkers

\* handles of the transport: the listen socket, the completion port and the
\* thread of each I/O worker; NoHandle is INVALID_SOCKET, INVALID_HANDLE_VALUE
\* and the NULL of w32::Thread::handle
NoHandle     == "none"
ListenHandle == "listen"
PortHandle   == "port"
ThreadHandle(i) == <<"worker1", "worker2", "worker3">>[i]
Handles == {ListenHandle, PortHandle} \cup {ThreadHandle(i) : i \in IOWorkers}

\* the w32::Mutex objects of the application, and the threads that take them
AppMutexes == {"clients_mutex", "queue_mutex", "rooms_mutex", "g_clients_mutex",
               "rate_mutex", "ban_mutex", "mute_mutex", "message_mutex",
               "activity_mutex", "cache_mutex", "file_mutex"}
NumLockThreads == 3
LockThreads == 1..NumLockThreads

\* CRITICAL_SECTION: OwningThread and RecursionCount
Section(owner, count) == [owner |-> owner, count |-> count]

\* a thread inside operation op, about to run step i of it
InCall(op, i) == [op |-> op, i |-> i]
NoCall == InCall("", 0)

\* Inbound chunks after trimming: a command word and its first argument
Chunk(cmd, arg) == [cmd |-> cmd, arg |-> arg]
Chunks == { Chunk("text", "x"), Chunk("#join", "a"), Chunk("#create", "a"),
            Chunk("#leave", ""), Chunk("#exit", "") }
NoChunk == Chunk("", "")

\* what a dispatcher callback sends (pairs of recipient and text) and whether
\* it stored the chunk
Output(c, sent, stored) == [client |-> c, sent |-> sent, stored |-> stored]
NoOutput == Output(0, {}, FALSE)

VARIABLES
    \* --- ChatRoomManager
    rooms,          \* ChatRoomManager::rooms : name -> Room
    client_rooms,   \* ChatRoomManager::client_rooms : client id -> name
    rooms_mutex,    \* holder of ChatRoomManager::rooms_mutex (NoThread = free)
    rpc,            \* per API thread: position inside a room manager call
    last,           \* the last completed room manager call and its result
    \* --- IOCPServer
    running,        \* IOCPServer::running
    next_client_id, \* IOCPServer::next_client_id
    clients,        \* keys of IOCPServer::clients (socket_to_id mirrors it)
    closes,         \* per client: number of closesocket calls on its socket
    io,             \* per client: state of its read PER_IO_DATA
    stop_pc,        \* per caller of IOCPServer::Stop: position inside it
    \* --- ThreadPool
    tasks,          \* ThreadPool::tasks
    stop,           \* ThreadPool::stop
    io_workers,     \* IOCPServer::io_workers : the w32::Thread::handle of each
    listen_socket,  \* IOCPServer::listen_socket (NoHandle = INVALID_SOCKET)
    completion_port,\* IOCPServer::completion_port (NoHandle = invalid)
    close_calls,    \* per handle: number of closesocket / CloseHandle calls
    writes,         \* per client: WRITE operations posted and not completed
    critical,       \* per w32::Mutex: owner and recursion count of its section
    calls,          \* per thread: the locking operation it is in and how far
    executed,       \* per pool task: number of times a worker has run it
    wk,             \* per pool worker: the task it runs and its position
    \* --- server.cpp globals and ConnectionManager
    g_running,          \* g_running
    g_client_names,     \* g_client_names : client id -> name
    current_connections,\* ConnectionManager::current_connections
    last_activity,      \* ConnectionManager::last_activity
    \* --- history of the run
    fired,          \* per client: number of on_disconnect tasks enqueued
    welcomed,       \* clients whose HandleConnect has sent the welcome
    disconnected,   \* per client: number of HandleDisconnect runs that left
    delivered,      \* number of chunks delivered so far
    stop_closed,    \* clients that were registered when Stop closed sockets
    \* --- ConnectionManager and the clock it reads
    now,                    \* std::chrono::steady_clock::now(), in seconds
    connection_timestamps,  \* ConnectionManager::connection_timestamps
    client_messages,        \* ConnectionManager::client_messages
    muted_clients,          \* ConnectionManager::muted_clients
    banned_ips,             \* ConnectionManager::banned_ips
    mutex_owner,            \* per ConnectionManager mutex: the thread inside it
    ip_address,             \* per client: CLIENT_INFO::ip_address
    \* --- MessageStore
    room_messages,          \* MessageStore::room_messages
    enable_persistence,     \* MessageStore::config.enable_persistence
    log_file,               \* MessageStore::log_file
    current_file_size,      \* MessageStore::current_file_size
    \* --- the log directory, the calendar and the disk
    files,                  \* per day: size of chat_<day>.log, when it exists
    today,                  \* the local date
    disk_ok,                \* whether opening and writing files succeeds
    \* --- history of the calls made on ConnectionManager and MessageStore
    advances,       \* number of times the clock has advanced
    conn_granted,   \* times at which AllowConnection returned true
    msg_granted,    \* per client: times at which AllowMessage returned true,
                    \* over the minute before the last of them
    mute_calls,     \* per client: summary of the Mute and Unmute calls on it
    out,            \* what the last dispatcher callback sent and stored
    last_chunk,     \* per client: time of its connect or last inbound chunk
    chat_log,       \* per client: its chat messages sent while named, with the
                    \* time and whether each was broadcast
    main_loop,      \* main: position in the idle sweep and its timed_out list
    stored_log      \* per room: messages stored since the last Clear

\* the pool's stop flag, the I/O worker threads, the listen socket and the
\* completion port, which only the shutdown steps write, the writes that
\* Send has posted, the critical sections of the mutexes with the threads
\* that take them, and the record of the tasks run
shutVars == <<stop, io_workers, listen_socket, completion_port, close_calls,
              writes, critical, calls, executed>>

roomVars   == <<rooms, client_rooms>>
apiVars    == <<rooms_mutex, rpc, last>>
serverVars == <<running, next_client_id, clients, closes, io, stop_pc,
                tasks, shutVars, wk, g_running, g_client_names,
                current_connections, last_activity,
                fired, welcomed, disconnected, delivered, stop_closed>>
policyVars == <<now, connection_timestamps, client_messages, muted_clients,
                banned_ips, mutex_owner, ip_address>>
fileVars   == <<enable_persistence, log_file, current_file_size, files,
                today, disk_ok>>
storeVars  == <<room_messages, fileVars>>
histVars   == <<advances, conn_granted, msg_granted, mute_calls, out,
                last_chunk, chat_log, main_loop, stored_log>>
cmVars     == <<policyVars, storeVars, histVars>>
vars == <<roomVars, apiVars, serverVars, cmVars>>

\* ------------------------------------------------------------------------
\* ChatRoomManager (chat_room.h / chat_room.cpp)
\* ------------------------------------------------------------------------
Room(owner, priv, pw) ==
    [members |-> {}, owner_id |-> owner, is_private |-> priv, password |-> pw]

\* ChatRoomManager::ChatRoomManager
InitRooms == [n \in {"general"} |-> Room(AdminId, FALSE, "")]
InitClientRooms == [c \in {} |-> "general"]

MapPut(f, k, v) == [x \in (DOMAIN f) \cup {k} |-> IF x = k THEN v ELSE f[x]]
MapErase(f, k)  == [x \in (DOMAIN f) \ {k} |-> f[x]]

\* a lock guard that never waits
Mut_LockAvailable(m, t) == TRUE

\* w32::LockGuard lock(rooms_mutex): blocks while another thread holds it
LockAvailable(m, t) == m = NoThread \/ m = t

\* CreateRoom: the map after the call (unchanged when the name is taken)
CreateRoomOk(rs, name) == name \notin DOMAIN rs
CreateRoomRooms(rs, name, owner, priv, pw) ==
    IF CreateRoomOk(rs, name) THEN MapPut(rs, name, Room(owner, priv, pw)) ELSE rs

\* DeleteRoom without the guard on the name general
Mut_DeleteRoomOk(rs, name, requester) ==
    /\ name \in DOMAIN rs
    /\ ~(rs[name].owner_id # requester /\ requester # AdminId)

\* DeleteRoom: the three early returns
DeleteRoomOk(rs, name, requester) ==
    /\ name # "general"
    /\ name \in DOMAIN rs
    /\ ~(rs[name].owner_id # requester /\ requester # AdminId)

\* DeleteRoom: the loop that moves all members to general
DeleteMoveRooms(rs, name) ==
    [rs EXCEPT !["general"].members = @ \cup rs[name].members]
\* a member loop that leaves the recorded rooms alone
Mut_DeleteMoveClientRooms(rs, cr, name) == cr
DeleteMoveClientRooms(rs, cr, name) ==
    [c \in (DOMAIN cr) \cup rs[name].members |->
        IF c \in rs[name].members THEN "general" ELSE cr[c]]

\* a join that never compares the password
Mut_JoinRoomOk(rs, name, pw) == name \in DOMAIN rs

\* JoinRoom: the two early returns
JoinRoomOk(rs, name, pw) ==
    /\ name \in DOMAIN rs
    /\ ~(rs[name].is_private /\ rs[name].password # pw)

\* a join that does not leave the current room
Mut_JoinLeaveCurrent(rs, cr, c) == rs

\* JoinRoom: "Leave current room first"
JoinLeaveCurrent(rs, cr, c) ==
    IF c \in DOMAIN cr /\ cr[c] \in DOMAIN rs
    THEN [rs EXCEPT ![cr[c]].members = @ \ {c}]
    ELSE rs

\* JoinRoom: "Join new room"
JoinInsert(rs, name, c) == [rs EXCEPT ![name].members = @ \cup {c}]

\* LeaveRoom
LeaveRoomRooms(rs, cr, c) ==
    IF c \in DOMAIN cr /\ cr[c] \in DOMAIN rs
    THEN [rs EXCEPT ![cr[c]].members = @ \ {c}]
    ELSE rs
LeaveRoomClientRooms(cr, c) == MapErase(cr, c)

\* GetClientRoom
GetClientRoom(cr, c) == IF c \in DOMAIN cr THEN cr[c] ELSE "general"

\* GetRoomMembers
GetRoomMembers(rs, name) == IF name \in DOMAIN rs THEN rs[name].members ELSE {}

\* GetRoommates
GetRoommates(rs, cr, c) ==
    IF c \notin DOMAIN cr
    THEN (IF "general" \in DOMAIN rs THEN rs["general"].members ELSE {})
    ELSE IF cr[c] \notin DOMAIN rs THEN {} ELSE rs[cr[c]].members

\* a join that leaves the current room before it validates the target
Mut_JoinRoomRooms(rs, cr, name, c, pw) ==
    IF JoinRoomOk(rs, name, pw)
    THEN JoinInsert(JoinLeaveCurrent(rs, cr, c), name, c)
    ELSE JoinLeaveCurrent(rs, cr, c)

\* The whole of JoinRoom as one critical section (as the dispatcher calls it)
JoinRoomRooms(rs, cr, name, c, pw) ==
    IF JoinRoomOk(rs, name, pw)
    THEN JoinInsert(JoinLeaveCurrent(rs, cr, c), name, c)
    ELSE rs
JoinRoomClientRooms(rs, cr, name, c, pw) ==
    IF JoinRoomOk(rs, name, pw) THEN MapPut(cr, c, name) ELSE cr

\* ------------------------------------------------------------------------
\* ThreadPool (thread_pool.h / thread_pool.cpp)
\* ------------------------------------------------------------------------
Task(kind, c, chunk) == [kind |-> kind, client |-> c, chunk |-> chunk]

\* ThreadPool::enqueue: dropped once stop is set
Enqueue(q, st, task) == IF st THEN q ELSE Append(q, task)

IdleWorker ==
    [pc |-> "idle", kind |-> "", client |-> 0, chunk |-> NoChunk, room |-> ""]

\* first position of a callback
EntryPc(kind) ==
    CASE kind = "connect"    -> "conn_allow"
      [] kind = "message"    -> "msg_begin"
      [] kind = "disconnect" -> "disc_read"

\* ------------------------------------------------------------------------
\* server.cpp helpers and ConnectionManager
\* ------------------------------------------------------------------------
\* GetClientName: the placeholder User#<id> stands for "no entry"
Placeholder(c) == <<"User#1", "User#2", "User#3", "User#4">>[c]
GetClientName(names, c) == IF c \in DOMAIN names THEN names[c] ELSE Placeholder(c)

\* ConnectionManager::AllowConnection: the connection cap
AllowConnection(count) == ~(count >= max_total_connections)

\* ConnectionManager::UpdateActivity
UpdateActivity(la, c, t) == MapPut(la, c, t)

\* ConnectionManager::OnDisconnect
OnDisconnect(count) == IF count > 0 THEN count - 1 ELSE count

\* ------------------------------------------------------------------------
\* IOCPServer (iocp_server.h / iocp_server.cpp)
\* ------------------------------------------------------------------------
\* closesocket on a socket with an outstanding WSARecv: the read completes
\* with an error
AbortRead(i, cl, c) ==
    IF c \in cl /\ i[c] = "pending" THEN [i EXCEPT ![c] = "aborted"] ELSE i

\* CleanupClient: erase under the lock, close the socket if the client was
\* found, enqueue on_disconnect
CleanupErase(cl, c) == cl \ {c}
Mut_CleanupSockets(cs, cl, c) == [cs EXCEPT ![c] = @ + 1]
CleanupSockets(cs, cl, c) == IF c \in cl THEN [cs EXCEPT ![c] = @ + 1] ELSE cs
CleanupTasks(q, st, c) == Enqueue(q, st, Task("disconnect", c, NoChunk))

CleanupClient(c, ioAfter) ==
    /\ clients' = CleanupErase(clients, c)
    /\ closes' = CleanupSockets(closes, clients, c)
    /\ io' = ioAfter
    /\ tasks' = CleanupTasks(tasks, stop, c)
    /\ fired' = IF Len(tasks') > Len(tasks)
                THEN [fired EXCEPT ![c] = @ + 1] ELSE fired

\* DisconnectClient
DisconnectClient(c) == CleanupClient(c, AbortRead(io, clients, c))

InitServerFor(cs) ==
    /\ running = TRUE
    /\ next_client_id = 1
    /\ clients = {}
    /\ closes = [c \in cs |-> 0]
    /\ io = [c \in cs |-> "none"]
    /\ stop_pc = [s \in Stoppers |-> "idle"]
    /\ tasks = <<>>
    /\ stop = FALSE
    /\ io_workers = [i \in IOWorkers |-> ThreadHandle(i)]
    /\ listen_socket = ListenHandle
    /\ completion_port = PortHandle
    /\ close_calls = [h \in Handles |-> 0]
    /\ writes = [c \in cs |-> 0]
    /\ critical = [m \in AppMutexes |-> Section(NoThread, 0)]
    /\ calls = [t \in LockThreads |-> NoCall]
    /\ executed = << >>
    /\ wk = [w \in PoolWorkers |-> IdleWorker]
    /\ g_running = TRUE
    /\ g_client_names = [c \in {} |-> ""]
    /\ current_connections = 0
    /\ last_activity = [c \in {} |-> 0]
    /\ fired = [c \in cs |-> 0]
    /\ welcomed = {}
    /\ disconnected = [c \in cs |-> 0]
    /\ delivered = 0
    /\ stop_closed = {}

InitServer == InitServerFor(Clients)

\* AcceptConnections / HandleAccept for the next peer
HandleAccept(c) ==
    /\ running
    /\ c = next_client_id
    /\ next_client_id' = c + 1
    /\ clients' = clients \cup {c}
    /\ tasks' = Enqueue(tasks, stop, Task("connect", c, NoChunk))
    /\ io' = [io EXCEPT ![c] = "pending"]
    /\ UNCHANGED <<running, closes, stop_pc, shutVars, wk, g_running, g_client_names,
                   current_connections, last_activity, fired, welcomed,
                   disconnected, delivered, stop_closed>>
    /\ UNCHANGED <<roomVars, apiVars, cmVars>>

\* IOCPWorkerThread: a read completes with data; HandleRead, PostRead
HandleRead(c, chunk) ==
    /\ running
    /\ io[c] = "pending"
    /\ delivered < MaxChunks
    /\ delivered' = delivered + 1
    /\ tasks' = Enqueue(tasks, stop, Task("message", c, chunk))
    /\ UNCHANGED <<running, next_client_id, clients, closes, io, stop_pc, shutVars,
                   wk, g_running, g_client_names, current_connections,
                   last_activity, fired, welcomed, disconnected, stop_closed>>
    /\ UNCHANGED <<roomVars, apiVars, cmVars>>

\* IOCPWorkerThread: a read completes with zero bytes (graceful peer close)
ReadClosed(c) ==
    /\ running
    /\ io[c] = "pending"
    /\ CleanupClient(c, [io EXCEPT ![c] = "none"])
    /\ UNCHANGED <<running, next_client_id, stop_pc, shutVars, wk, g_running,
                   g_client_names, current_connections, last_activity,
                   welcomed, disconnected, delivered, stop_closed>>
    /\ UNCHANGED <<roomVars, apiVars, cmVars>>

\* IOCPWorkerThread: a read completes with an error (peer reset, or the
\* socket was closed locally while the read was outstanding)
ReadFailed(c) ==
    /\ running
    /\ io[c] \in {"pending", "aborted"}
    /\ CleanupClient(c, [io EXCEPT ![c] = "none"])
    /\ UNCHANGED <<running, next_client_id, stop_pc, shutVars, wk, g_running,
                   g_client_names, current_connections, last_activity,
                   welcomed, disconnected, delivered, stop_closed>>
    /\ UNCHANGED <<roomVars, apiVars, cmVars>>

\* main loop: CheckTimeouts(GetAllClients()) names c, DisconnectClient(c)
IdleSweep(c) ==
    /\ g_running /\ running
    /\ c \in clients
    /\ c \in DOMAIN last_activity
    /\ DisconnectClient(c)
    /\ UNCHANGED <<running, next_client_id, stop_pc, shutVars, wk, g_running,
                   g_client_names, current_connections, last_activity,
                   welcomed, disconnected, delivered, stop_closed>>
    /\ UNCHANGED <<roomVars, apiVars, cmVars>>

\* ConsoleHandler: g_running = false; Stop() up to the join of the I/O
\* workers (early return when not running)
StopEnter(s) ==
    /\ stop_pc[s] = "idle"
    /\ g_running
    /\ g_running' = FALSE
    /\ IF ~running
       THEN /\ stop_pc' = [stop_pc EXCEPT ![s] = "done"]
            /\ UNCHANGED running
       ELSE /\ stop_pc' = [stop_pc EXCEPT ![s] = "close"]
            /\ running' = FALSE
    /\ UNCHANGED <<next_client_id, clients, closes, io, tasks, shutVars, wk,
                   g_client_names, current_connections, last_activity,
                   fired, welcomed, disconnected, delivered, stop_closed>>
    /\ UNCHANGED <<roomVars, apiVars, cmVars>>

\* Stop: "Close all client connections", close the port, return
StopClose(s) ==
    /\ stop_pc[s] = "close"
    /\ closes' = [c \in Clients |-> IF c \in clients THEN closes[c] + 1
                                    ELSE closes[c]]
    /\ io' = [c \in Clients |-> IF c \in clients /\ io[c] = "pending"
                                THEN "aborted" ELSE io[c]]
    /\ clients' = {}
    /\ stop_closed' = stop_closed \cup clients
    /\ stop_pc' = [stop_pc EXCEPT ![s] = "done"]
    /\ UNCHANGED <<running, next_client_id, tasks, shutVars, wk, g_running,
                   g_client_names, current_connections, last_activity,
                   fired, welcomed, disconnected, delivered>>
    /\ UNCHANGED <<roomVars, apiVars, cmVars>>

\* ------------------------------------------------------------------------
\* Pool workers running the dispatcher callbacks (server.cpp)
\* ------------------------------------------------------------------------
transportVars == <<running, next_client_id, clients, closes, io, stop_pc,
                   shutVars, g_running, delivered, stop_closed, fired>>

Goto(w, pc) == wk' = [wk EXCEPT ![w].pc = pc]
Finish(w)   == wk' = [wk EXCEPT ![w] = IdleWorker]

\* worker loop: wait, pop the front task, start it
PoolTake(w) ==
    /\ wk[w].pc = "idle"
    /\ tasks # <<>>
    /\ tasks' = Tail(tasks)
    /\ wk' = [wk EXCEPT ![w] = [pc |-> EntryPc(Head(tasks).kind),
                                kind |-> Head(tasks).kind,
                                client |-> Head(tasks).client,
                                chunk |-> Head(tasks).chunk,
                                room |-> ""]]
    /\ UNCHANGED <<transportVars, g_client_names, current_connections,
                   last_activity, welcomed, disconnected>>
    /\ UNCHANGED <<roomVars, apiVars, cmVars>>

\* HandleConnect: AllowConnection; a refused client is disconnected
ConnAllow(w) ==
    /\ wk[w].pc = "conn_allow"
    /\ IF AllowConnection(current_connections)
       THEN /\ Goto(w, "conn_join")
            /\ UNCHANGED <<clients, closes, io, tasks, fired>>
       ELSE /\ DisconnectClient(wk[w].client)
            /\ Finish(w)
    /\ UNCHANGED <<running, next_client_id, stop_pc, shutVars, g_running,
                   delivered, stop_closed, g_client_names,
                   current_connections, last_activity, welcomed, disconnected>>
    /\ UNCHANGED <<roomVars, apiVars, cmVars>>

\* HandleConnect: OnConnect(); JoinRoom("general", client_id)
ConnJoin(w) ==
    /\ wk[w].pc = "conn_join"
    /\ current_connections' = current_connections + 1
    /\ rooms' = JoinRoomRooms(rooms, client_rooms, "general", wk[w].client, "")
    /\ client_rooms' =
           JoinRoomClientRooms(rooms, client_rooms, "general", wk[w].client, "")
    /\ Goto(w, "conn_welcome")
    /\ UNCHANGED <<transportVars, tasks, g_client_names, last_activity,
                   welcomed, disconnected>>
    /\ UNCHANGED <<apiVars, cmVars>>

\* HandleConnect: SendToClient(client_id, welcome)
ConnWelcome(w) ==
    /\ wk[w].pc = "conn_welcome"
    /\ welcomed' = welcomed \cup {wk[w].client}
    /\ Finish(w)
    /\ UNCHANGED <<transportVars, tasks, g_client_names, current_connections,
                   last_activity, disconnected>>
    /\ UNCHANGED <<roomVars, apiVars, cmVars>>

\* HandleDisconnect: GetClientName, GetClientRoom
DiscRead(w) ==
    /\ wk[w].pc = "disc_read"
    /\ wk' = [wk EXCEPT ![w].pc = "disc_leave",
                        ![w].room = GetClientRoom(client_rooms, wk[w].client)]
    /\ UNCHANGED <<transportVars, tasks, g_client_names, current_connections,
                   last_activity, welcomed, disconnected>>
    /\ UNCHANGED <<roomVars, apiVars, cmVars>>

\* HandleDisconnect: LeaveRoom, OnDisconnect, erase the name, notify the room
DiscLeave(w) ==
    /\ wk[w].pc = "disc_leave"
    /\ rooms' = LeaveRoomRooms(rooms, client_rooms, wk[w].client)
    /\ client_rooms' = LeaveRoomClientRooms(client_rooms, wk[w].client)
    /\ current_connections' = OnDisconnect(current_connections)
    /\ g_client_names' = MapErase(g_client_names, wk[w].client)
    /\ disconnected' = [disconnected EXCEPT ![wk[w].client] = @ + 1]
    /\ Finish(w)
    /\ UNCHANGED <<transportVars, tasks, last_activity, welcomed>>
    /\ UNCHANGED <<apiVars, cmVars>>

\* HandleMessage up to the name check: AllowMessage, RecordMessage (which
\* refreshes last_activity), IsMuted, GetClientName
MsgBegin(w) ==
    /\ wk[w].pc = "msg_begin"
    /\ last_activity' = UpdateActivity(last_activity, wk[w].client, now)
    /\ Goto(w, IF wk[w].chunk.cmd = "text"
               THEN (IF GetClientName(g_client_names, wk[w].client)
                           = Placeholder(wk[w].client)
                     THEN "msg_setname" ELSE "msg_broadcast")
               ELSE wk[w].chunk.cmd)
    /\ UNCHANGED <<transportVars, tasks, g_client_names, current_connections,
                   welcomed, disconnected>>
    /\ UNCHANGED <<roomVars, apiVars, cmVars>>

\* HandleMessage: name registration (SetClientName, notify the room)
MsgSetName(w) ==
    /\ wk[w].pc = "msg_setname"
    /\ g_client_names' = MapPut(g_client_names, wk[w].client, wk[w].chunk.arg)
    /\ Finish(w)
    /\ UNCHANGED <<transportVars, tasks, current_connections, last_activity,
                   welcomed, disconnected>>
    /\ UNCHANGED <<roomVars, apiVars, cmVars>>

\* HandleMessage: BroadcastToRoom
MsgBroadcast(w) ==
    /\ wk[w].pc = "msg_broadcast"
    /\ Finish(w)
    /\ UNCHANGED <<transportVars, tasks, g_client_names, current_connections,
                   last_activity, welcomed, disconnected>>
    /\ UNCHANGED <<roomVars, apiVars, cmVars>>

\* ProcessCommand #exit: DisconnectClient(client_id)
CmdExit(w) ==
    /\ wk[w].pc = "#exit"
    /\ DisconnectClient(wk[w].client)
    /\ Finish(w)
    /\ UNCHANGED <<running, next_client_id, stop_pc, shutVars, g_running,
                   delivered, stop_closed, g_client_names,
                   current_connections, last_activity, welcomed, disconnected>>
    /\ UNCHANGED <<roomVars, apiVars, cmVars>>

\* ProcessCommand #join: GetClientRoom, "already in" check
CmdJoinRead(w) ==
    /\ wk[w].pc = "#join"
    /\ IF GetClientRoom(client_rooms, wk[w].client) = wk[w].chunk.arg
       THEN Finish(w)
       ELSE wk' = [wk EXCEPT ![w].pc = "join_room",
                             ![w].room = GetClientRoom(client_rooms, wk[w].client)]
    /\ UNCHANGED <<transportVars, tasks, g_client_names, current_connections,
                   last_activity, welcomed, disconnected>>
    /\ UNCHANGED <<roomVars, apiVars, cmVars>>

\* ProcessCommand #join: JoinRoom(room_name, client_id) and the notices
CmdJoin(w) ==
    /\ wk[w].pc = "join_room"
    /\ rooms' = JoinRoomRooms(rooms, client_rooms, wk[w].chunk.arg, wk[w].client, "")
    /\ client_rooms' =
           JoinRoomClientRooms(rooms, client_rooms, wk[w].chunk.arg, wk[w].client, "")
    /\ Finish(w)
    /\ UNCHANGED <<transportVars, tasks, g_client_names, current_connections,
                   last_activity, welcomed, disconnected>>
    /\ UNCHANGED <<apiVars, cmVars>>

\* ProcessCommand #create: CreateRoom(room_name, client_id)
CmdCreate(w) ==
    /\ wk[w].pc = "#create"
    /\ rooms' = CreateRoomRooms(rooms, wk[w].chunk.arg, wk[w].client, FALSE, "")
    /\ IF CreateRoomOk(rooms, wk[w].chunk.arg)
       THEN Goto(w, "create_join")
       ELSE Finish(w)
    /\ UNCHANGED <<transportVars, tasks, g_client_names, current_connections,
                   last_activity, welcomed, disconnected, client_rooms>>
    /\ UNCHANGED <<apiVars, cmVars>>

\* ProcessCommand #create: JoinRoom(room_name, client_id)
CmdCreateJoin(w) ==
    /\ wk[w].pc = "create_join"
    /\ rooms' = JoinRoomRooms(rooms, client_rooms, wk[w].chunk.arg, wk[w].client, "")
    /\ client_rooms' =
           JoinRoomClientRooms(rooms, client_rooms, wk[w].chunk.arg, wk[w].client, "")
    /\ Finish(w)
    /\ UNCHANGED <<transportVars, tasks, g_client_names, current_connections,
                   last_activity, welcomed, disconnected>>
    /\ UNCHANGED <<apiVars, cmVars>>

\* ProcessCommand #leave: GetClientRoom
CmdLeaveRead(w) ==
    /\ wk[w].pc = "#leave"
    /\ IF GetClientRoom(client_rooms, wk[w].client) # "general"
       THEN Goto(w, "leave_join")
       ELSE Finish(w)
    /\ UNCHANGED <<transportVars, tasks, g_client_names, current_connections,
                   last_activity, welcomed, disconnected>>
    /\ UNCHANGED <<roomVars, apiVars, cmVars>>

\* ProcessCommand #leave: JoinRoom("general", client_id)
CmdLeaveJoin(w) ==
    /\ wk[w].pc = "leave_join"
    /\ rooms' = JoinRoomRooms(rooms, client_rooms, "general", wk[w].client, "")
    /\ client_rooms' =
           JoinRoomClientRooms(rooms, client_rooms, "general", wk[w].client, "")
    /\ Finish(w)
    /\ UNCHANGED <<transportVars, tasks, g_client_names, current_connections,
                   last_activity, welcomed, disconnected>>
    /\ UNCHANGED <<apiVars, cmVars>>

Idle == [pc |-> "idle", name |-> "", id |-> 0, moved |-> {}]
Done(op, name, id, ret) == [op |-> op, name |-> name, id |-> id, ret |-> ret]

InitRoomManager ==
    /\ rooms = InitRooms
    /\ client_rooms = InitClientRooms
    /\ rooms_mutex = NoThread
    /\ rpc = [t \in Threads |-> Idle]
    /\ last = Done("none", "", 0, FALSE)

\* the Mute and Unmute calls made on a client: the last of them (op), the
\* duration of the last Mute and, when it is timed, its time (at), and
\* whether a Mute(c, 0) has been made with no Unmute(c) after it
MuteCall(op, d, at, perm) == [op |-> op, d |-> d, at |-> at, perm |-> perm]
NoMuteCall == MuteCall("none", 0, 0, FALSE)

\* main's loop: asleep, or disconnecting the clients CheckTimeouts returned
MainLoop(pc, ids) == [pc |-> pc, timed_out |-> ids]
Sleeping == MainLoop("sleep", {})

\* the mutexes of ConnectionManager that the message path takes
ControllerMutexes == {"mute_mutex", "message_mutex", "activity_mutex"}

\* std::ofstream: open or not, the file it writes to, its failbit
LogFile(open, day, fail) == [is_open |-> open, day |-> day, fail |-> fail]

\* MessageStore::MessageStore as main configures it, in an empty log
\* directory: OpenLogFile has created today's file
InitLogFile ==
    /\ enable_persistence = TRUE
    /\ today = 1
    /\ disk_ok = TRUE
    /\ files = [d \in {1} |-> 0]
    /\ log_file = LogFile(TRUE, 1, FALSE)
    /\ current_file_size = 0

\* MessageStore::MessageStore with enable_persistence = false
InitNoLogFile ==
    /\ enable_persistence = FALSE
    /\ today = 1
    /\ disk_ok = TRUE
    /\ files = [d \in {} |-> 0]
    /\ log_file = LogFile(FALSE, 0, FALSE)
    /\ current_file_size = 0

\* ConnectionManager::ConnectionManager and the cache of MessageStore
InitController ==
    /\ now = 0
    /\ connection_timestamps = <<>>
    /\ client_messages = [c \in {} |-> <<>>]
    /\ muted_clients = [c \in {} |-> 0]
    /\ banned_ips = {}
    /\ mutex_owner = [m \in ControllerMutexes |-> NoThread]
    /\ ip_address = [c \in {} |-> ""]
    /\ room_messages = [r \in {} |-> <<>>]
    /\ advances = 0
    /\ conn_granted = <<>>
    /\ msg_granted = [c \in Clients |-> <<>>]
    /\ mute_calls = [c \in Clients |-> NoMuteCall]
    /\ out = NoOutput
    /\ last_chunk = [c \in {} |-> 0]
    /\ chat_log = [c \in Clients |-> <<>>]
    /\ main_loop = Sleeping
    /\ stored_log = [r \in {} |-> <<>>]

InitPolicy == InitController /\ InitLogFile

Init == InitRoomManager /\ InitServer /\ InitPolicy

Next ==
    \/ \E c \in Clients : HandleAccept(c)
    \/ \E c \in Clients, ch \in Chunks : HandleRead(c, ch)
    \/ \E c \in Clients : ReadClosed(c)
    \/ \E c \in Clients : ReadFailed(c)
    \/ \E c \in Clients : IdleSweep(c)
    \/ \E s \in Stoppers : StopEnter(s)
    \/ \E s \in Stoppers : StopClose(s)
    \/ \E w \in PoolWorkers :
          \/ PoolTake(w)
          \/ ConnAllow(w)
          \/ ConnJoin(w)
          \/ ConnWelcome(w)
          \/ DiscRead(w)
          \/ DiscLeave(w)
          \/ MsgBegin(w)
          \/ MsgSetName(w)
          \/ MsgBroadcast(w)
          \/ CmdExit(w)
          \/ CmdJoinRead(w)
          \/ CmdJoin(w)
          \/ CmdCreate(w)
          \/ CmdCreateJoin(w)
          \/ CmdLeaveRead(w)
          \/ CmdLeaveJoin(w)

Spec == Init /\ [][Next]_vars

\* ------------------------------------------------------------------------
\* Admission alone: one peer more than the cap connects and disconnects
\* ------------------------------------------------------------------------
AdmitClients == 1..(max_total_connections + 1)

InitAdmit == InitRoomManager /\ InitServerFor(AdmitClients) /\ InitPolicy

NextAdmit ==
    \/ \E c \in AdmitClients : HandleAccept(c)
    \/ \E c \in AdmitClients : ReadClosed(c)
    \/ \E w \in PoolWorkers :
          \/ PoolTake(w)
          \/ ConnAllow(w)
          \/ ConnJoin(w)
          \/ ConnWelcome(w)
          \/ DiscRead(w)
          \/ DiscLeave(w)

SpecAdmit == InitAdmit /\ [][NextAdmit]_vars

\* ------------------------------------------------------------------------
\* The room manager called directly from API threads
\* ------------------------------------------------------------------------

InitRoomsApi == InitRoomManager /\ InitServer /\ InitPolicy

CanCall(t) == rpc[t].pc = "idle" /\ LockAvailable(rooms_mutex, t)

CreateRoom(t, name, owner, priv, pw) ==
    /\ CanCall(t)
    /\ rooms' = CreateRoomRooms(rooms, name, owner, priv, pw)
    /\ last' = Done("CreateRoom", name, owner, CreateRoomOk(rooms, name))
    /\ UNCHANGED <<client_rooms, rooms_mutex, rpc>>
    /\ UNCHANGED <<serverVars, cmVars>>

\* DeleteRoom up to the end of the member loop; the lock stays held
DeleteRoomEnter(t, name, requester) ==
    /\ CanCall(t)
    /\ IF DeleteRoomOk(rooms, name, requester)
       THEN /\ rooms' = DeleteMoveRooms(rooms, name)
            /\ client_rooms' = DeleteMoveClientRooms(rooms, client_rooms, name)
            /\ rooms_mutex' = t
            /\ rpc' = [rpc EXCEPT ![t] = [pc |-> "delete_erase", name |-> name,
                                          id |-> requester,
                                          moved |-> rooms[name].members]]
            /\ UNCHANGED last
       ELSE /\ last' = Done("DeleteRoom", name, requester, FALSE)
            /\ UNCHANGED <<rooms, client_rooms, rooms_mutex, rpc>>
    /\ UNCHANGED <<serverVars, cmVars>>

\* DeleteRoom: rooms.erase(it); return true (the lock guard is released)
DeleteRoomExit(t) ==
    /\ rpc[t].pc = "delete_erase"
    /\ rooms' = MapErase(rooms, rpc[t].name)
    /\ rooms_mutex' = NoThread
    /\ rpc' = [rpc EXCEPT ![t] = Idle]
    /\ last' = Done("DeleteRoom", rpc[t].name, rpc[t].id, TRUE)
    /\ UNCHANGED client_rooms
    /\ UNCHANGED <<serverVars, cmVars>>

\* JoinRoom up to the end of "Leave current room first"; the lock stays held
JoinRoomEnter(t, name, c, pw) ==
    /\ CanCall(t)
    /\ IF JoinRoomOk(rooms, name, pw)
       THEN /\ rooms' = JoinLeaveCurrent(rooms, client_rooms, c)
            /\ rooms_mutex' = t
            /\ rpc' = [rpc EXCEPT ![t] = [pc |-> "join_insert", name |-> name,
                                          id |-> c, moved |-> {}]]
            /\ UNCHANGED <<client_rooms, last>>
       ELSE /\ last' = Done("JoinRoom", name, c, FALSE)
            /\ UNCHANGED <<rooms, client_rooms, rooms_mutex, rpc>>
    /\ UNCHANGED <<serverVars, cmVars>>

\* JoinRoom: insert, record, return true (the lock guard is released)
JoinRoomExit(t) ==
    /\ rpc[t].pc = "join_insert"
    /\ rooms' = JoinInsert(rooms, rpc[t].name, rpc[t].id)
    /\ client_rooms' = MapPut(client_rooms, rpc[t].id, rpc[t].name)
    /\ rooms_mutex' = NoThread
    /\ rpc' = [rpc EXCEPT ![t] = Idle]
    /\ last' = Done("JoinRoom", rpc[t].name, rpc[t].id, TRUE)
    /\ UNCHANGED <<serverVars, cmVars>>

LeaveRoom(t, c) ==
    /\ CanCall(t)
    /\ rooms' = LeaveRoomRooms(rooms, client_rooms, c)
    /\ client_rooms' = LeaveRoomClientRooms(client_rooms, c)
    /\ last' = Done("LeaveRoom", "", c, TRUE)
    /\ UNCHANGED <<rooms_mutex, rpc>>
    /\ UNCHANGED <<serverVars, cmVars>>

CallGetClientRoom(t, c) ==
    /\ CanCall(t)
    /\ last' = Done("GetClientRoom", "", c, GetClientRoom(client_rooms, c))
    /\ UNCHANGED <<rooms, client_rooms, rooms_mutex, rpc>>
    /\ UNCHANGED <<serverVars, cmVars>>

CallGetRoomMembers(t, name) ==
    /\ CanCall(t)
    /\ last' = Done("GetRoomMembers", name, 0, GetRoomMembers(rooms, name))
    /\ UNCHANGED <<rooms, client_rooms, rooms_mutex, rpc>>
    /\ UNCHANGED <<serverVars, cmVars>>

CallGetRoommates(t, c) ==
    /\ CanCall(t)
    /\ last' = Done("GetRoommates", "", c, GetRoommates(rooms, client_rooms, c))
    /\ UNCHANGED <<rooms, client_rooms, rooms_mutex, rpc>>
    /\ UNCHANGED <<serverVars, cmVars>>

NextRoomsApi ==
    \E t \in Threads :
        \/ \E n \in RoomNames, o \in Clients, p \in BOOLEAN, pw \in Passwords :
               (p \/ pw = "") /\ CreateRoom(t, n, o, p, pw)
        \/ \E n \in RoomNames, r \in Ids : DeleteRoomEnter(t, n, r)
        \/ DeleteRoomExit(t)
        \/ \E n \in RoomNames, c \in Clients, pw \in Passwords :
               JoinRoomEnter(t, n, c, pw)
        \/ JoinRoomExit(t)
        \/ \E c \in Clients : LeaveRoom(t, c)
        \/ \E c \in Clients : CallGetClientRoom(t, c)
        \/ \E n \in RoomNames : CallGetRoomMembers(t, n)
        \/ \E c \in Clients : CallGetRoommates(t, c)

SpecRooms == InitRoomsApi /\ [][NextRoomsApi]_vars

\* ------------------------------------------------------------------------
\* ConnectionManager called directly from API threads, with the clock
\* ------------------------------------------------------------------------
\* std::chrono::seconds, std::chrono::minutes (the clock counts seconds)
seconds(n) == n
minutes(n) == 60 * n

\* how far the clock moves between two calls
AdvanceSteps == {seconds(1), minutes(1)}
Ips == {"10.0.0.1", "10.0.0.2"}

\* time passes
Advance(d) ==
    /\ advances < MaxAdvances
    /\ advances' = advances + 1
    /\ now' = now + d
    /\ UNCHANGED <<connection_timestamps, client_messages, muted_clients,
                   banned_ips, mutex_owner, ip_address, storeVars, conn_granted, msg_granted,
                   mute_calls, out, last_chunk, chat_log, main_loop, stored_log>>
    /\ UNCHANGED <<roomVars, apiVars, serverVars>>

\* while (!q.empty() && q.front() < cutoff) q.pop_front()
RECURSIVE PruneOlder(_, _)
PruneOlder(q, cutoff) ==
    IF q # <<>> /\ Head(q) < cutoff THEN PruneOlder(Tail(q), cutoff) ELSE q

\* ConnectionManager::IsBanned
IsBanned(b, ip) == ip \in b

\* a window that also drops the timestamps exactly one second old
Mut_RateWindow(q, t) == PruneOlder(q, t - seconds(1) + 1)

\* AllowConnection: "Remove old timestamps"
RateWindow(q, t) == PruneOlder(q, t - seconds(1))

\* AllowConnection: the rate check and the push_back
RateAllowed(q, t) == ~(Len(RateWindow(q, t)) >= max_connections_per_second)
RateTimestamps(q, t) ==
    IF RateAllowed(q, t) THEN Append(RateWindow(q, t), t) ELSE RateWindow(q, t)

CallIdle(t) == rpc[t].pc = "idle"

\* AllowConnection up to the rate lock: the ban check and the connection cap
AllowConnectionEnter(t, ip) ==
    /\ CallIdle(t)
    /\ IF IsBanned(banned_ips, ip) \/ ~AllowConnection(current_connections)
       THEN /\ last' = Done("AllowConnection", ip, 0, FALSE)
            /\ UNCHANGED rpc
       ELSE /\ rpc' = [rpc EXCEPT ![t] = [pc |-> "allow_rate", name |-> ip,
                                          id |-> 0, moved |-> {}]]
            /\ UNCHANGED last
    /\ UNCHANGED <<rooms_mutex, roomVars, serverVars, cmVars>>

\* AllowConnection under rate_mutex: expire, compare, append
AllowConnectionRate(t) ==
    /\ rpc[t].pc = "allow_rate"
    /\ connection_timestamps' = RateTimestamps(connection_timestamps, now)
    /\ last' = Done("AllowConnection", rpc[t].name, 0,
                    RateAllowed(connection_timestamps, now))
    /\ conn_granted' = IF RateAllowed(connection_timestamps, now)
                       THEN Append(conn_granted, now) ELSE conn_granted
    /\ rpc' = [rpc EXCEPT ![t] = Idle]
    /\ UNCHANGED <<now, client_messages, muted_clients, banned_ips, mutex_owner, ip_address, storeVars,
                   advances, msg_granted, mute_calls, out, last_chunk, chat_log, main_loop,
                   stored_log>>
    /\ UNCHANGED <<rooms_mutex, roomVars, serverVars>>

\* ConnectionManager::Ban
Ban(ip) ==
    /\ banned_ips' = banned_ips \cup {ip}
    /\ UNCHANGED <<mutex_owner, ip_address>>
    /\ UNCHANGED <<now, connection_timestamps, client_messages, muted_clients,
                   storeVars, histVars>>
    /\ UNCHANGED <<roomVars, apiVars, serverVars>>

\* ConnectionManager::Unban
Unban(ip) ==
    /\ banned_ips' = banned_ips \ {ip}
    /\ UNCHANGED <<mutex_owner, ip_address>>
    /\ UNCHANGED <<now, connection_timestamps, client_messages, muted_clients,
                   storeVars, histVars>>
    /\ UNCHANGED <<roomVars, apiVars, serverVars>>

countVars == <<running, next_client_id, clients, closes, io, stop_pc,
               tasks, shutVars, wk, g_running, g_client_names, last_activity,
               fired, welcomed, disconnected, delivered, stop_closed>>

\* ConnectionManager::OnConnect (the callers stop at one above the cap)
CallOnConnect ==
    /\ current_connections <= max_total_connections
    /\ current_connections' = current_connections + 1
    /\ UNCHANGED <<roomVars, apiVars, countVars, cmVars>>

\* ConnectionManager::OnDisconnect
CallOnDisconnect ==
    /\ current_connections' = OnDisconnect(current_connections)
    /\ UNCHANGED <<roomVars, apiVars, countVars, cmVars>>

NextConnRate ==
    \/ \E d \in AdvanceSteps : Advance(d)
    \/ \E t \in Threads, ip \in Ips : AllowConnectionEnter(t, ip)
    \/ \E t \in Threads : AllowConnectionRate(t)
    \/ \E ip \in Ips : Ban(ip)
    \/ \E ip \in Ips : Unban(ip)
    \/ CallOnConnect
    \/ CallOnDisconnect

SpecConnRate == Init /\ [][NextConnRate]_vars

\* std::chrono::steady_clock::time_point::max()
TimeMax == 2147483647

\* a mute that treats the duration 0 like any other
Mut_Mute(m, c, d, t) == MapPut(m, c, t + seconds(d))

\* ConnectionManager::Mute
Mute(m, c, d, t) ==
    MapPut(m, c, IF d = 0 THEN TimeMax ELSE t + seconds(d))

\* ConnectionManager::Unmute
Unmute(m, c) == MapErase(m, c)

\* an expiry test that lets the mute end one tick early
Mut_MuteExpired(m, c, t) == c \in DOMAIN m /\ m[c] # TimeMax /\ t >= m[c]

\* IsMuted: "Check if mute has expired"
MuteExpired(m, c, t) == c \in DOMAIN m /\ m[c] # TimeMax /\ t > m[c]

\* ConnectionManager::IsMuted: the result, and the map after the lazy erase
IsMuted(m, c, t) == c \in DOMAIN m /\ ~MuteExpired(m, c, t)
IsMutedErase(m, c, t) == IF MuteExpired(m, c, t) THEN MapErase(m, c) ELSE m

\* client_messages[client_id]: an absent client gets an empty deque
MessagesOf(cm, c) == IF c \in DOMAIN cm THEN cm[c] ELSE <<>>

\* a window that also drops the timestamps exactly one minute old
Mut_MessageWindow(cm, c, t) ==
    PruneOlder(MessagesOf(cm, c), t - minutes(1) + 1)

\* AllowMessage: "Remove old timestamps"
MessageWindow(cm, c, t) == PruneOlder(MessagesOf(cm, c), t - minutes(1))

\* ConnectionManager::AllowMessage: the result and the maps after the call
AllowMessage(m, cm, c, t) ==
    /\ ~IsMuted(m, c, t)
    /\ Len(MessageWindow(cm, c, t)) < max_messages_per_minute
AllowMessageMessages(m, cm, c, t) ==
    IF IsMuted(m, c, t) THEN cm ELSE MapPut(cm, c, MessageWindow(cm, c, t))

\* ConnectionManager::RecordMessage
RecordMessage(cm, c, t) == MapPut(cm, c, Append(MessagesOf(cm, c), t))

\* the entries of a history that are not older than a time
Since(h, t) == SelectSeq(h, LAMBDA x : x >= t)

RecordPending(c) ==
    \E t \in Threads : rpc[t].pc = "record" /\ rpc[t].id = c

\* a caller asks AllowMessage(c); when allowed it goes on to RecordMessage(c)
\* before AllowMessage(c) is asked again
CallAllowMessage(t, c) ==
    /\ CallIdle(t)
    /\ ~RecordPending(c)
    /\ muted_clients' = IsMutedErase(muted_clients, c, now)
    /\ client_messages' = AllowMessageMessages(muted_clients, client_messages, c, now)
    /\ last' = Done("AllowMessage", "", c,
                    AllowMessage(muted_clients, client_messages, c, now))
    /\ IF AllowMessage(muted_clients, client_messages, c, now)
       THEN /\ msg_granted' = [msg_granted EXCEPT
                                  ![c] = Append(Since(@, now - minutes(1)), now)]
            /\ rpc' = [rpc EXCEPT ![t] = [pc |-> "record", name |-> "",
                                          id |-> c, moved |-> {}]]
       ELSE UNCHANGED <<msg_granted, rpc>>
    /\ UNCHANGED <<now, connection_timestamps, banned_ips, mutex_owner, ip_address, storeVars,
                   advances, conn_granted, mute_calls, out, last_chunk, chat_log, main_loop,
                   stored_log>>
    /\ UNCHANGED <<rooms_mutex, roomVars, serverVars>>

\* the caller records the message
CallRecordMessage(t) ==
    /\ rpc[t].pc = "record"
    /\ client_messages' = RecordMessage(client_messages, rpc[t].id, now)
    /\ last_activity' = UpdateActivity(last_activity, rpc[t].id, now)
    /\ rpc' = [rpc EXCEPT ![t] = Idle]
    /\ last' = Done("RecordMessage", "", rpc[t].id, TRUE)
    /\ UNCHANGED <<now, connection_timestamps, muted_clients, banned_ips, mutex_owner, ip_address,
                   storeVars, histVars>>
    /\ UNCHANGED <<rooms_mutex, roomVars, transportVars, tasks, wk,
                   g_client_names, current_connections, welcomed,
                   disconnected>>

MuteDurations == {0, 1}

CallMute(c, d) ==
    /\ muted_clients' = Mute(muted_clients, c, d, now)
    /\ mute_calls' = [mute_calls EXCEPT
                        ![c] = MuteCall("Mute", d, IF d = 0 THEN 0 ELSE now,
                                        d = 0 \/ @.perm)]
    /\ last' = Done("Mute", "", c, TRUE)
    /\ UNCHANGED <<now, connection_timestamps, client_messages, banned_ips, mutex_owner, ip_address,
                   storeVars, advances, conn_granted, msg_granted, out,
                   last_chunk, chat_log, main_loop, stored_log>>
    /\ UNCHANGED <<rooms_mutex, rpc, roomVars, serverVars>>

CallUnmute(c) ==
    /\ muted_clients' = Unmute(muted_clients, c)
    /\ mute_calls' = [mute_calls EXCEPT
                        ![c] = MuteCall("Unmute", @.d, @.at, FALSE)]
    /\ last' = Done("Unmute", "", c, TRUE)
    /\ UNCHANGED <<now, connection_timestamps, client_messages, banned_ips, mutex_owner, ip_address,
                   storeVars, advances, conn_granted, msg_granted, out,
                   last_chunk, chat_log, main_loop, stored_log>>
    /\ UNCHANGED <<rooms_mutex, rpc, roomVars, serverVars>>

CallIsMuted(c) ==
    /\ muted_clients' = IsMutedErase(muted_clients, c, now)
    /\ last' = Done("IsMuted", "", c, IsMuted(muted_clients, c, now))
    /\ UNCHANGED <<now, connection_timestamps, client_messages, banned_ips, mutex_owner, ip_address,
                   storeVars, histVars>>
    /\ UNCHANGED <<rooms_mutex, rpc, roomVars, serverVars>>

\* the message rate limit, with permanent mutes
NextMsgRate ==
    \/ \E d \in AdvanceSteps : Advance(d)
    \/ \E t \in Threads, c \in Clients : CallAllowMessage(t, c)
    \/ \E t \in Threads : CallRecordMessage(t)
    \/ \E c \in Clients : CallMute(c, 0)
    \/ \E c \in Clients : CallUnmute(c)

SpecMsgRate == Init /\ [][NextMsgRate]_vars

\* the mute map
NextMute ==
    \/ \E d \in AdvanceSteps : Advance(d)
    \/ \E c \in Clients, d \in MuteDurations : CallMute(c, d)
    \/ \E c \in Clients : CallUnmute(c)
    \/ \E c \in Clients : CallIsMuted(c)

SpecMute == Init /\ [][NextMute]_vars

\* ------------------------------------------------------------------------
\* MessageStore (message_store.h / message_store.cpp)
\* ------------------------------------------------------------------------
\* ChatMessage (the wall-clock timestamp is left out: no operation reads it)
ChatMessage(id, name, room, content) ==
    [sender_id |-> id, sender_name |-> name, room |-> room, content |-> content]

StoredMessages == {ChatMessage(c, "n", r, "x") : c \in Clients, r \in RoomNames}

\* room_messages[room]: an absent room gets an empty deque
MessagesIn(rm, r) == IF r \in DOMAIN rm THEN rm[r] ELSE <<>>

Min(a, b) == IF a < b THEN a ELSE b

\* a trim that drops the newest messages
Mut_StoreTrim(q) ==
    IF Len(q) > max_messages_per_room
    THEN SubSeq(q, 1, max_messages_per_room) ELSE q

\* Store: "Trim if over limit"
RECURSIVE StoreTrim(_)
StoreTrim(q) ==
    IF Len(q) > max_messages_per_room THEN StoreTrim(Tail(q)) ELSE q

\* a store that puts the new message at the front of the deque
Mut_Store(rm, msg) ==
    MapPut(rm, msg.room, StoreTrim(<<msg>> \o MessagesIn(rm, msg.room)))

\* MessageStore::Store (the in-memory cache)
Store(rm, msg) ==
    MapPut(rm, msg.room, StoreTrim(Append(MessagesIn(rm, msg.room), msg)))

\* MessageStore::GetRecent
GetRecent(rm, r, n) ==
    IF r \notin DOMAIN rm THEN <<>>
    ELSE SubSeq(rm[r],
                (IF Len(rm[r]) > n THEN Len(rm[r]) - n ELSE 0) + 1,
                Len(rm[r]))

\* MessageStore::Clear
Clear(rm, r) == IF r = "" THEN [x \in {} |-> <<>>] ELSE MapErase(rm, r)

\* ChatMessage::ToString() + "\n": every line has the same length
LineSize == 1

\* the members of MessageStore that the log writes touch, and the directory
FileState(ep, lf, sz, fl) ==
    [enable_persistence |-> ep, log_file |-> lf, current_file_size |-> sz,
     files |-> fl]

\* MessageStore::OpenLogFile on the date day; ok: the open succeeds
OpenLogFile(fs, day, ok) ==
    IF ok
    THEN [fs EXCEPT !.log_file = LogFile(TRUE, day, FALSE),
                    !.files = IF day \in DOMAIN @ THEN @ ELSE MapPut(@, day, 0),
                    !.current_file_size =
                        IF day \in DOMAIN fs.files THEN fs.files[day] ELSE 0]
    ELSE [fs EXCEPT !.log_file = LogFile(FALSE, day, TRUE),
                    !.enable_persistence = FALSE]

\* MessageStore::RotateLogFile
RotateLogFile(fs, day, ok) ==
    OpenLogFile([fs EXCEPT !.log_file.is_open = FALSE,
                           !.current_file_size = 0], day, ok)

\* log_file << line; current_file_size += line.size()
WriteLine(fs, ok) ==
    [fs EXCEPT !.files[fs.log_file.day] =
                   @ + (IF ok /\ ~fs.log_file.fail THEN LineSize ELSE 0),
               !.log_file.fail = ~(ok /\ ~fs.log_file.fail),
               !.current_file_size = @ + LineSize]

\* MessageStore::WriteToFile
WriteToFile(fs, day, ok) ==
    IF ~fs.log_file.is_open THEN fs
    ELSE IF WriteLine(fs, ok).current_file_size >= max_file_size
    THEN RotateLogFile(WriteLine(fs, ok), day, ok)
    ELSE WriteLine(fs, ok)

\* MessageStore::Store: "Write to file"
StoreFile(fs, day, ok) ==
    IF fs.enable_persistence THEN WriteToFile(fs, day, ok) ELSE fs

TheFile == FileState(enable_persistence, log_file, current_file_size, files)

FileBecomes(fs) ==
    /\ enable_persistence' = fs.enable_persistence
    /\ log_file' = fs.log_file
    /\ current_file_size' = fs.current_file_size
    /\ files' = fs.files
    /\ UNCHANGED <<today, disk_ok>>

storeFrame == <<policyVars, advances, conn_granted, msg_granted, mute_calls,
                out, last_chunk, chat_log, main_loop>>

CallStore(msg) ==
    /\ Len(MessagesIn(stored_log, msg.room)) < MaxStores
    /\ room_messages' = Store(room_messages, msg)
    /\ FileBecomes(StoreFile(TheFile, today, disk_ok))
    /\ stored_log' = MapPut(stored_log, msg.room,
                            Append(MessagesIn(stored_log, msg.room), msg))
    /\ last' = Done("Store", msg.room, msg.sender_id, TRUE)
    /\ UNCHANGED <<storeFrame, rooms_mutex, rpc, roomVars, serverVars>>

CallGetRecent(r, n) ==
    /\ last' = Done("GetRecent", r, n, GetRecent(room_messages, r, n))
    /\ UNCHANGED <<storeFrame, storeVars, stored_log>>
    /\ UNCHANGED <<rooms_mutex, rpc, roomVars, serverVars>>

CallClear(r) ==
    /\ room_messages' = Clear(room_messages, r)
    /\ stored_log' = Clear(stored_log, r)
    /\ UNCHANGED fileVars
    /\ last' = Done("Clear", r, 0, TRUE)
    /\ UNCHANGED <<storeFrame, rooms_mutex, rpc, roomVars, serverVars>>

NextStore ==
    \/ \E msg \in StoredMessages : CallStore(msg)
    \/ \E r \in RoomNames, n \in 0..(max_messages_per_room + 1) :
           CallGetRecent(r, n)
    \/ \E r \in RoomNames \cup {""} : CallClear(r)

\* a store built without persistence
InitCache == InitRoomManager /\ InitServer /\ InitController /\ InitNoLogFile

SpecStore == InitCache /\ [][NextStore]_vars

\* ------------------------------------------------------------------------
\* MessageStore with its log: any configuration, day changes, a failing disk
\* ------------------------------------------------------------------------
FileIs(fs) ==
    /\ enable_persistence = fs.enable_persistence
    /\ log_file = fs.log_file
    /\ current_file_size = fs.current_file_size
    /\ files = fs.files

\* sizes of a log file of today left behind by an earlier run
PriorSizes == 0..(max_file_size - 1)

\* MessageStore::MessageStore(cfg): with or without persistence, with or
\* without a log of today in the directory, on a working or a failing disk
InitAnyLogFile ==
    /\ today = 1
    /\ disk_ok \in BOOLEAN
    /\ \E ep \in BOOLEAN :
       \E fl \in {[d \in {} |-> 0]} \cup {[d \in {1} |-> sz] : sz \in PriorSizes} :
          FileIs(IF ep
                 THEN OpenLogFile(FileState(TRUE, LogFile(FALSE, 0, FALSE), 0, fl),
                                  today, disk_ok)
                 ELSE FileState(FALSE, LogFile(FALSE, 0, FALSE), 0, fl))

InitLog == InitRoomManager /\ InitServer /\ InitController /\ InitAnyLogFile

logFrame == <<rooms_mutex, rpc, last, roomVars, serverVars, storeFrame,
              room_messages, enable_persistence, log_file, current_file_size,
              files, stored_log>>

\* midnight passes
DayChange ==
    /\ today < MaxDays
    /\ today' = today + 1
    /\ UNCHANGED <<logFrame, disk_ok>>

\* the disk fills up or is unmounted; space is made or it comes back
DiskFails ==
    /\ disk_ok
    /\ disk_ok' = FALSE
    /\ UNCHANGED <<logFrame, today>>

DiskRecovers ==
    /\ ~disk_ok
    /\ disk_ok' = TRUE
    /\ UNCHANGED <<logFrame, today>>

\* the messages logged: those of one room, from every sender
LoggedMessages == {msg \in StoredMessages : msg.room = "general"}

NextLog ==
    \/ \E msg \in LoggedMessages : CallStore(msg)
    \/ \E n \in 0..(max_messages_per_room + 1) : CallGetRecent("general", n)
    \/ DayChange
    \/ DiskFails
    \/ DiskRecovers

SpecLog == InitLog /\ [][NextLog]_vars

\* ------------------------------------------------------------------------
\* The dispatcher with the clock: chat chunks, #mute and the idle sweep
\* ------------------------------------------------------------------------
MaxChatChunks == 4     \* inbound chunks delivered over a run of the chat

\* the names the peers register, by client id
ChatNames == <<"alice", "bob", "carol", "dave">>

\* the seconds argument of the #mute commands sent ("#mute bob 1")
ChatMuteSeconds == 1

\* what a peer sends: its name (the first registers it, the later ones are
\* chat lines) or a #mute on another peer's name
ChatChunks(c) ==
    {Chunk("text", ChatNames[c])}
        \cup {Chunk("#mute", ChatNames[d]) : d \in Clients \ {c}}

\* SendToClient(to, text); kind separates a reply, a notice and a chat line
Line(to, kind, text) == <<to, kind, text>>
TooMany == "You are sending too many messages. Please slow down."
YouAreMuted == "You are muted."

\* one chat line of a named client: when it was handled, whether the client
\* was muted then, the other members of its room, and what the callback did
ChatEntry(at, muted, others, o) ==
    [at |-> at, muted |-> muted, others |-> others, out |-> o]

\* BroadcastToRoom stored the line and sent it to the other members
Broadcast(c, others, text) ==
    Output(c, {Line(m, "chat", text) : m \in others}, TRUE)
\* only the rate-limit reply, or only the mute reply, went to the sender
Refused(c) == Output(c, {Line(c, "reply", TooMany)}, FALSE)
MutedReply(c) == Output(c, {Line(c, "reply", YouAreMuted)}, FALSE)

\* ConnectionManager::CheckTimeouts
CheckTimeouts(la, cs, t) ==
    {c \in cs : c \in DOMAIN la
                /\ t - la[c] > seconds(connection_timeout_seconds)}

PoolIdle == tasks = <<>> /\ \A w \in PoolWorkers : wk[w].pc = "idle"

\* time passes between callbacks
ChatAdvance(d) == PoolIdle /\ Advance(d)

\* AcceptConnections / HandleAccept for the next peer, at a known time
ChatAccept(c) ==
    /\ running
    /\ c = next_client_id
    /\ tasks = <<>>
    /\ next_client_id' = c + 1
    /\ clients' = clients \cup {c}
    /\ tasks' = Enqueue(tasks, stop, Task("connect", c, NoChunk))
    /\ io' = [io EXCEPT ![c] = "pending"]
    /\ last_chunk' = MapPut(last_chunk, c, now)
    /\ UNCHANGED <<running, closes, stop_pc, shutVars, wk, g_running, g_client_names,
                   current_connections, last_activity, fired, welcomed,
                   disconnected, delivered, stop_closed>>
    /\ UNCHANGED <<roomVars, apiVars, policyVars, storeVars, advances,
                   conn_granted, msg_granted, mute_calls, out, chat_log,
                   main_loop, stored_log>>

\* IOCPWorkerThread: a read of a welcomed peer completes with a chunk, once
\* the pool has taken the tasks before it
ChatRead(c, chunk) ==
    /\ running
    /\ io[c] = "pending"
    /\ c \in welcomed
    /\ tasks = <<>>
    /\ delivered < MaxChatChunks
    /\ delivered' = delivered + 1
    /\ tasks' = Enqueue(tasks, stop, Task("message", c, chunk))
    /\ last_chunk' = MapPut(last_chunk, c, now)
    /\ UNCHANGED <<running, next_client_id, clients, closes, io, stop_pc, shutVars,
                   wk, g_running, g_client_names, current_connections,
                   last_activity, fired, welcomed, disconnected, stop_closed>>
    /\ UNCHANGED <<roomVars, apiVars, policyVars, storeVars, advances,
                   conn_granted, msg_granted, mute_calls, out, chat_log,
                   main_loop, stored_log>>

\* a chat line of a named client, as the history keeps it
IsChat(w) ==
    /\ wk[w].chunk.cmd = "text"
    /\ GetClientName(g_client_names, wk[w].client) # Placeholder(wk[w].client)

ChatLogged(w, o) ==
    chat_log' =
        IF IsChat(w)
        THEN [chat_log EXCEPT ![wk[w].client] =
                 Append(@, ChatEntry(now,
                                     IsMuted(muted_clients, wk[w].client, now),
                                     GetRoomMembers(rooms,
                                         GetClientRoom(client_rooms, wk[w].client))
                                       \ {wk[w].client},
                                     o))]
        ELSE chat_log

\* HandleMessage: "Check rate limiting" (the chunks sent are not empty)
ChatAllow(w) ==
    /\ wk[w].pc = "msg_begin"
    /\ muted_clients' = IsMutedErase(muted_clients, wk[w].client, now)
    /\ client_messages' =
           AllowMessageMessages(muted_clients, client_messages, wk[w].client, now)
    /\ IF AllowMessage(muted_clients, client_messages, wk[w].client, now)
       THEN /\ Goto(w, "msg_record")
            /\ msg_granted' = [msg_granted EXCEPT ![wk[w].client] =
                                   Append(Since(@, now - minutes(1)), now)]
            /\ UNCHANGED <<out, chat_log>>
       ELSE /\ Finish(w)
            /\ out' = Refused(wk[w].client)
            /\ ChatLogged(w, Refused(wk[w].client))
            /\ UNCHANGED msg_granted
    /\ UNCHANGED <<transportVars, tasks, g_client_names, current_connections,
                   last_activity, welcomed, disconnected>>
    /\ UNCHANGED <<roomVars, apiVars, now, connection_timestamps, banned_ips, mutex_owner, ip_address,
                   storeVars, advances, conn_granted, mute_calls, last_chunk,
                   main_loop, stored_log>>

\* the ids whose registered name is the target of a #mute, #kick, ...
NamedAs(names, n) == {t \in DOMAIN names : names[t] = n}

\* HandleMessage from RecordMessage on: "Check mute", the name registration,
\* ProcessCommand #mute, BroadcastToRoom
ChatHandle(w) ==
    LET c      == wk[w].client
        ch     == wk[w].chunk
        name   == GetClientName(g_client_names, c)
        room   == GetClientRoom(client_rooms, c)
        others == GetRoomMembers(rooms, room) \ {c}
        msg    == ChatMessage(c, name, room, ch.arg)
    IN
    /\ wk[w].pc = "msg_record"
    /\ client_messages' = RecordMessage(client_messages, c, now)
    /\ last_activity' = UpdateActivity(last_activity, c, now)
    /\ Finish(w)
    /\ IF IsMuted(muted_clients, c, now)
       THEN /\ out' = MutedReply(c)
            /\ ChatLogged(w, MutedReply(c))
            /\ UNCHANGED <<muted_clients, mute_calls, g_client_names,
                           room_messages, fileVars, stored_log>>
       ELSE IF name = Placeholder(c) /\ ch.cmd = "text"
       THEN /\ g_client_names' = MapPut(g_client_names, c, ch.arg)
            /\ out' = Output(c, {Line(m, "notice", "has joined") : m \in others},
                             FALSE)
            /\ muted_clients' = IsMutedErase(muted_clients, c, now)
            /\ UNCHANGED <<mute_calls, room_messages, fileVars, stored_log,
                           chat_log>>
       ELSE IF ch.cmd = "#mute"
       THEN /\ IF NamedAs(g_client_names, ch.arg) = {}
               THEN /\ out' = Output(c, {Line(c, "reply", "User not found")},
                                     FALSE)
                    /\ muted_clients' = IsMutedErase(muted_clients, c, now)
                    /\ UNCHANGED mute_calls
               ELSE \E t \in NamedAs(g_client_names, ch.arg) :
                    /\ muted_clients' =
                           Mute(IsMutedErase(muted_clients, c, now), t,
                                ChatMuteSeconds, now)
                    /\ mute_calls' = [mute_calls EXCEPT ![t] =
                                         MuteCall("Mute", ChatMuteSeconds, now,
                                                  @.perm)]
                    /\ out' = Output(c, {Line(t, "notice", "You have been muted"),
                                         Line(c, "reply", "Muted")}, FALSE)
            /\ UNCHANGED <<g_client_names, room_messages, fileVars, stored_log,
                           chat_log>>
       ELSE /\ room_messages' = Store(room_messages, msg)
            /\ FileBecomes(StoreFile(TheFile, today, disk_ok))
            /\ stored_log' = MapPut(stored_log, room,
                                    Append(MessagesIn(stored_log, room), msg))
            /\ out' = Broadcast(c, others, ch.arg)
            /\ muted_clients' = IsMutedErase(muted_clients, c, now)
            /\ ChatLogged(w, Broadcast(c, others, ch.arg))
            /\ UNCHANGED <<mute_calls, g_client_names>>
    /\ UNCHANGED <<transportVars, tasks, current_connections, welcomed,
                   disconnected>>
    /\ UNCHANGED <<roomVars, apiVars, now, connection_timestamps, banned_ips, mutex_owner, ip_address,
                   advances, conn_granted, msg_granted, last_chunk, main_loop>>

\* main loop: timed_out = CheckTimeouts(GetAllClients())
SweepCheck ==
    /\ g_running /\ running
    /\ main_loop.pc = "sleep"
    /\ PoolIdle
    /\ main_loop' = MainLoop("disconnect",
                             CheckTimeouts(last_activity, clients, now))
    /\ UNCHANGED <<roomVars, apiVars, serverVars, policyVars, storeVars,
                   advances, conn_granted, msg_granted, mute_calls, out,
                   last_chunk, chat_log, stored_log>>

\* main loop: DisconnectClient(id) for the next id of timed_out, or the end
\* of the list
SweepDisconnect ==
    /\ main_loop.pc = "disconnect"
    /\ IF main_loop.timed_out = {}
       THEN /\ main_loop' = Sleeping
            /\ UNCHANGED <<clients, closes, io, tasks, fired>>
       ELSE \E c \in main_loop.timed_out :
            /\ DisconnectClient(c)
            /\ main_loop' = MainLoop("disconnect", main_loop.timed_out \ {c})
    /\ UNCHANGED <<running, next_client_id, stop_pc, shutVars, wk, g_running,
                   g_client_names, current_connections, last_activity,
                   welcomed, disconnected, delivered, stop_closed>>
    /\ UNCHANGED <<roomVars, apiVars, policyVars, storeVars, advances,
                   conn_granted, msg_granted, mute_calls, out, last_chunk,
                   chat_log, stored_log>>

NextChat ==
    \/ \E d \in AdvanceSteps : ChatAdvance(d)
    \/ \E c \in Clients : ChatAccept(c)
    \/ \E c \in Clients : \E ch \in ChatChunks(c) : ChatRead(c, ch)
    \/ SweepCheck
    \/ SweepDisconnect
    \/ \E w \in PoolWorkers :
          \/ PoolTake(w)
          \/ ConnAllow(w)
          \/ ConnJoin(w)
          \/ ConnWelcome(w)
          \/ ChatAllow(w)
          \/ ChatHandle(w)
          \/ DiscRead(w)
          \/ DiscLeave(w)

SpecChat == Init /\ [][NextChat]_vars

\* the last k entries of a sequence
LastK(q, k) == SubSeq(q, Len(q) - k + 1, Len(q))

\* C20: after any sequence of Store and Clear calls GetRecent(r, n) returns
\* the last min(n, |cache[r]|) messages stored to r since the last Clear,
\* oldest first; |cache[r]| never exceeds max_messages_per_room and the
\* cache holds the newest messages (overflow evicts the oldest).
Thm_C20_GetRecent ==
    \A r \in RoomNames, n \in 0..(MaxStores + 1) :
        /\ Len(MessagesIn(room_messages, r)) <= max_messages_per_room
        /\ MessagesIn(room_messages, r)
              = LastK(MessagesIn(stored_log, r),
                      Min(Len(MessagesIn(stored_log, r)), max_messages_per_room))
        /\ GetRecent(room_messages, r, n)
              = LastK(MessagesIn(stored_log, r),
                      Min(n, Len(MessagesIn(room_messages, r))))

\* GetRecent has just returned a full cache of two different messages from a
\* room that has overflowed
Wit_C20_AfterOverflow ==
    /\ last.op = "GetRecent"
    /\ Len(MessagesIn(stored_log, last.name)) > max_messages_per_room
    /\ Len(last.ret) = max_messages_per_room
    /\ last.ret[1] # last.ret[Len(last.ret)]
    /\ last.ret[1] # MessagesIn(stored_log, last.name)[1]

\* number of entries of h in the closed interval [lo, hi]
CountIn(h, lo, hi) ==
    Cardinality({i \in 1..Len(h) : lo <= h[i] /\ h[i] <= hi})

IsSuffix(q, p) == \E k \in 0..Len(p) : q = SubSeq(p, k + 1, Len(p))

\* C13: over all peers and callers AllowConnection returns true at most
\* max_connections_per_second times within any one-second window, and a
\* refused call (banned address, cap reached or window full) appends no
\* timestamp.
Thm_C13_ConnectionRate ==
    /\ [](\A t \in 0..now :
            CountIn(conn_granted, t, t + seconds(1))
                <= max_connections_per_second)
    /\ [][\A t \in Threads :
            /\ \A ip \in Ips :
                  (AllowConnectionEnter(t, ip)
                      /\ (ip \in banned_ips
                            \/ current_connections >= max_total_connections))
                  => /\ last' = Done("AllowConnection", ip, 0, FALSE)
                     /\ connection_timestamps' = connection_timestamps
                     /\ rpc'[t].pc = "idle"
            /\ (AllowConnectionRate(t) /\ ~last'.ret)
                  => /\ IsSuffix(connection_timestamps', connection_timestamps)
                     /\ conn_granted' = conn_granted
            /\ (AllowConnectionRate(t) /\ last'.ret)
                  => connection_timestamps'
                        = Append(PruneOlder(connection_timestamps,
                                            now - seconds(1)), now)]_vars

\* C14: when every allowed AllowMessage(c) is followed by RecordMessage(c)
\* before AllowMessage(c) is asked again, AllowMessage(c) returns true at
\* most max_messages_per_minute times within any 60-second window; the
\* result depends only on the mute and on c's own timestamps of the last 60
\* seconds, and no call on c changes another client's timestamps.
Thm_C14_MessageRate ==
    /\ [](\A c \in Clients : \A i \in 1..Len(msg_granted[c]) :
            CountIn(msg_granted[c], msg_granted[c][i],
                    msg_granted[c][i] + minutes(1))
                <= max_messages_per_minute)
    /\ [][\A t \in Threads, c \in Clients :
            /\ CallAllowMessage(t, c) =>
                  /\ last'.ret =
                        (/\ ~IsMuted(muted_clients, c, now)
                         /\ CountIn(MessagesOf(client_messages, c),
                                    now - minutes(1), now)
                               < max_messages_per_minute)
                  /\ \A d \in Clients \ {c} :
                        MessagesOf(client_messages', d)
                            = MessagesOf(client_messages, d)
            /\ (CallRecordMessage(t) /\ rpc[t].id = c) =>
                  \A d \in Clients \ {c} :
                        MessagesOf(client_messages', d)
                            = MessagesOf(client_messages, d)]_vars

\* a client whose two messages are exactly one minute old has just been
\* refused, while the other client has been allowed at the same time
Wit_C14_RefusedAtOneMinute ==
    \E c, d \in Clients :
        /\ c # d
        /\ now = minutes(1)
        /\ msg_granted[c] # <<>> /\ msg_granted[c][Len(msg_granted[c])] = now
        /\ Len(MessagesOf(client_messages, d)) = max_messages_per_minute
        /\ MessagesOf(client_messages, d)[1] = 0
        /\ last = Done("AllowMessage", "", d, FALSE)
        /\ d \notin DOMAIN muted_clients

\* C17 as stated: once Mute(c, 0) has been called, IsMuted(c) is true at
\* every later time, whatever else is called, until Unmute(c) is called.
Cex_C17_PermanentUntilUnmute ==
    \A c \in Clients :
        mute_calls[c].perm => IsMuted(muted_clients, c, now)

\* C17 amended: while Mute(c, 0) is the last Mute or Unmute call made on c,
\* IsMuted(c) is true however much time passes; while Unmute(c) is the last
\* one, it is false.
Thm_C17_PermanentMute ==
    \A c \in Clients :
        /\ (mute_calls[c].op = "Mute" /\ mute_calls[c].d = 0)
               => IsMuted(muted_clients, c, now)
        /\ mute_calls[c].op = "Unmute" => ~IsMuted(muted_clients, c, now)

\* IsMuted has just returned true two minutes after Mute(c, 0), and the
\* other client has been unmuted
Wit_C17_StillMuted ==
    \E c, d \in Clients :
        /\ mute_calls[c].op = "Mute" /\ mute_calls[c].d = 0
        /\ mute_calls[d].op = "Unmute"
        /\ now >= minutes(2)
        /\ last = Done("IsMuted", "", c, TRUE)

\* C18 as stated: after Mute(c, s) with s > 0 at time t and no later Mute
\* call on c, IsMuted(c) is true at every time up to t + s and false at
\* every time after it.
Cex_C18_TimedMute ==
    \A c \in Clients :
        mute_calls[c].d > 0 =>
            (IsMuted(muted_clients, c, now)
                <=> now <= mute_calls[c].at + seconds(mute_calls[c].d))

\* C18 amended: after Mute(c, s) with s > 0 at time t and no later Mute call
\* on c, IsMuted(c) is false at every time after t + s, and true at every
\* time up to t + s unless Unmute(c) has been called; the first IsMuted call
\* that observes the expiry returns false and removes the entry.
Thm_C18_TimedMute ==
    /\ [](\A c \in Clients :
            mute_calls[c].d > 0 =>
               /\ now > mute_calls[c].at + seconds(mute_calls[c].d)
                     => ~IsMuted(muted_clients, c, now)
               /\ (mute_calls[c].op = "Mute"
                      /\ now <= mute_calls[c].at + seconds(mute_calls[c].d))
                     => IsMuted(muted_clients, c, now))
    /\ [][\A c \in Clients :
            (/\ CallIsMuted(c)
             /\ mute_calls[c].d > 0
             /\ now > mute_calls[c].at + seconds(mute_calls[c].d))
            => /\ c \notin DOMAIN muted_clients'
               /\ last' = Done("IsMuted", "", c, FALSE)]_vars

\* IsMuted has just observed the expiry of a timed mute and erased the entry
Wit_C18_ExpiryObserved ==
    \E c \in Clients :
        /\ mute_calls[c].op = "Mute" /\ mute_calls[c].d > 0
        /\ now > mute_calls[c].at + seconds(mute_calls[c].d)
        /\ last = Done("IsMuted", "", c, FALSE)
        /\ c \notin DOMAIN muted_clients

\* a call has just been refused because the window is full, one second
\* after the first grants
Wit_C13_WindowFull ==
    /\ last.op = "AllowConnection" /\ last.ret = FALSE
    /\ last.name \notin banned_ips
    /\ current_connections < max_total_connections
    /\ Len(connection_timestamps) = max_connections_per_second
    /\ now = seconds(1) /\ connection_timestamps[1] = 0

\* ------------------------------------------------------------------------
\* Properties of the room manager
\* ------------------------------------------------------------------------
\* the rooms whose member set holds c
InRooms(c) == {r \in DOMAIN rooms : c \in rooms[r].members}

RoomsConsistent ==
    /\ \A c \in Clients, r \in RoomNames :
          (c \in DOMAIN client_rooms /\ client_rooms[c] = r)
              <=> (r \in DOMAIN rooms /\ c \in rooms[r].members)
    /\ \A c \in DOMAIN client_rooms : client_rooms[c] \in DOMAIN rooms
    /\ \A c \in Clients : Cardinality(InRooms(c)) <= 1

\* C6: between calls of CreateRoom, DeleteRoom, JoinRoom and LeaveRoom
\* (successful or failed, from any thread) the recorded room of a client is r
\* exactly when the client is in r's member set, every recorded room exists
\* and no client is a member of two rooms.
Thm_C6_MembershipConsistent == rooms_mutex = NoThread => RoomsConsistent

\* a client sits in room a after a failed call
Wit_C6_MemberOfA ==
    /\ rooms_mutex = NoThread
    /\ \E c \in Clients : c \in DOMAIN client_rooms /\ client_rooms[c] = "a"
    /\ last.ret = FALSE /\ last.op \in {"JoinRoom", "DeleteRoom", "CreateRoom"}

\* C8: general exists in every reachable state, and DeleteRoom("general", r)
\* returns false and changes nothing for every requester r, administrator
\* included.
Thm_C8_GeneralUndeletable ==
    /\ []("general" \in DOMAIN rooms)
    /\ [][\A t \in Threads, r \in Ids :
            DeleteRoomEnter(t, "general", r) =>
                /\ last'.ret = FALSE
                /\ rooms' = rooms
                /\ client_rooms' = client_rooms
                /\ rpc' = rpc]_vars

\* DeleteRoom("general", 0) has just been refused while room a exists
Wit_C8_DeleteGeneralRefused ==
    /\ last = Done("DeleteRoom", "general", AdminId, FALSE)
    /\ "a" \in DOMAIN rooms

\* C9: DeleteRoom(r, requester) succeeds only when r exists, is not general
\* and requester is the owner or the administrator; on success r is gone and
\* every prior member is in general and recorded there, with no step of
\* another thread in between; on failure rooms and memberships are unchanged.
Thm_C9_DeleteRoom ==
    [][\A t \in Threads :
         /\ \A n \in RoomNames, r \in Ids :
              DeleteRoomEnter(t, n, r) =>
                 IF rpc'[t].pc = "delete_erase"
                 THEN /\ n \in DOMAIN rooms
                      /\ n # "general"
                      /\ (rooms[n].owner_id = r \/ r = AdminId)
                 ELSE /\ last'.ret = FALSE
                      /\ rooms' = rooms
                      /\ client_rooms' = client_rooms
         /\ DeleteRoomExit(t) =>
                 /\ last'.ret = TRUE
                 /\ rpc[t].name \notin DOMAIN rooms'
                 /\ \A c \in rpc[t].moved :
                       /\ c \in rooms'["general"].members
                       /\ c \in DOMAIN client_rooms'
                       /\ client_rooms'[c] = "general"
         /\ rpc[t].pc = "delete_erase" => rpc'[t].pc = "idle"]_vars

\* a room with a member has just been deleted by its owner
Wit_C9_MembersMigrated ==
    /\ last.op = "DeleteRoom" /\ last.ret = TRUE /\ last.id # AdminId
    /\ rooms["general"].members # {}
    /\ "a" \notin DOMAIN rooms

ObserverStep ==
    \E t \in Threads :
        \/ \E c \in Clients : CallGetClientRoom(t, c)
        \/ \E n \in RoomNames : CallGetRoomMembers(t, n)
        \/ \E c \in Clients : CallGetRoommates(t, c)
        \/ \E n \in RoomNames, r \in Ids : DeleteRoomEnter(t, n, r)
        \/ \E n \in RoomNames, c \in Clients, pw \in Passwords :
               JoinRoomEnter(t, n, c, pw)

\* C10: the state read by GetRoomMembers, GetClientRoom, GetRoommates,
\* DeleteRoom or JoinRoom never shows a client in two rooms, nor a client
\* with a recorded room in no room: a join in progress is not observable.
Thm_C10_JoinAtomic ==
    [][ObserverStep =>
          /\ \A t \in Threads : rpc[t].pc # "join_insert"
          /\ \A c \in Clients :
                /\ Cardinality(InRooms(c)) <= 1
                /\ c \in DOMAIN client_rooms => Cardinality(InRooms(c)) = 1]_vars

\* a thread is between the two halves of a join that moves a client out of
\* its previous room
Wit_C10_JoinInProgress ==
    \E t \in Threads :
        /\ rpc[t].pc = "join_insert"
        /\ rpc[t].id \in DOMAIN client_rooms
        /\ client_rooms[rpc[t].id] # rpc[t].name
        /\ InRooms(rpc[t].id) = {}

\* C11: JoinRoom(name, c, password) returns false and changes no room and no
\* membership when the room does not exist or is private with a stored
\* password different from the argument (an empty stored password matches an
\* empty argument); on a public room it goes through whatever the password.
Thm_C11_JoinRoomRefusals ==
    [][\A t \in Threads, n \in RoomNames, c \in Clients, pw \in Passwords :
          JoinRoomEnter(t, n, c, pw) =>
              IF n \notin DOMAIN rooms
                 \/ (rooms[n].is_private /\ rooms[n].password # pw)
              THEN /\ last' = Done("JoinRoom", n, c, FALSE)
                   /\ rooms' = rooms
                   /\ client_rooms' = client_rooms
                   /\ rpc' = rpc
              ELSE /\ rpc'[t].pc = "join_insert"
                   /\ rpc'[t].name = n /\ rpc'[t].id = c
                   /\ (~rooms[n].is_private
                         \/ rooms[n].password = pw)]_vars

\* a join of the private room a with the wrong password has just been refused
Wit_C11_WrongPasswordRefused ==
    /\ last.op = "JoinRoom" /\ last.name = "a" /\ last.ret = FALSE
    /\ "a" \in DOMAIN rooms
    /\ rooms["a"].is_private /\ rooms["a"].password = "pw"

\* ------------------------------------------------------------------------
\* Properties of the transport, the pool and the dispatcher
\* ------------------------------------------------------------------------
Running(w, kind, c) ==
    wk[w].pc # "idle" /\ wk[w].kind = kind /\ wk[w].client = c
Queued(kind, c) ==
    \E i \in 1..Len(tasks) : tasks[i].kind = kind /\ tasks[i].client = c
Quiescent == tasks = <<>> /\ \A w \in PoolWorkers : wk[w].pc = "idle"
StopReturned == \E s \in Stoppers : stop_pc[s] = "done"

\* C1: on_disconnect is enqueued on the pool at most once (exactly once
\* over the lifetime) for every accepted client, whatever closes it.
Cex_C1_DisconnectFiredOnce == \A c \in Clients : fired[c] <= 1

\* C2: once Stop() has returned and the pool has run dry, on_disconnect
\* has been fired exactly once for each client that was registered when
\* Stop() closed the sockets, and each of their sockets has been closed.
Cex_C2_StopFiresDisconnect ==
    (StopReturned /\ Quiescent) =>
        \A c \in stop_closed : fired[c] = 1 /\ closes[c] >= 1

\* C3: after Stop() has returned no pool worker starts an on_message
\* callback, also not for a task that was queued before Stop() was called.
Cex_C3_NoMessageAfterStop ==
    [][StopReturned =>
          \A w \in PoolWorkers :
              ~(wk[w].pc = "idle" /\ wk'[w].pc # "idle"
                  /\ wk'[w].kind = "message")]_vars

\* C4: no two pool workers run on_message callbacks of the same client at
\* the same time.
Cex_C4_MessagesSerialized ==
    \A w1, w2 \in PoolWorkers, c \in Clients :
        (w1 # w2 /\ Running(w1, "message", c)) => ~Running(w2, "message", c)

\* C5: while an on_message callback of a client runs, its on_connect
\* callback is neither running nor queued; while its on_disconnect callback
\* runs, none of its on_message callbacks is running or queued.
Cex_C5_CallbackOrder ==
    \A c \in Clients, w1, w2 \in PoolWorkers :
        /\ Running(w1, "message", c) =>
               ~Running(w2, "connect", c) /\ ~Queued("connect", c)
        /\ Running(w1, "disconnect", c) =>
               ~Running(w2, "message", c) /\ ~Queued("message", c)

\* the clients HandleConnect has admitted (OnConnect has run) and whose
\* HandleDisconnect has not run
AdmittedLive ==
    {c \in DOMAIN disconnected :
        /\ disconnected[c] = 0
        /\ \/ c \in welcomed
           \/ \E w \in PoolWorkers :
                 wk[w].pc = "conn_welcome" /\ wk[w].client = c}

\* C12: the number of clients admitted by HandleConnect whose disconnect has
\* not been processed never exceeds max_total_connections, whatever the
\* interleaving of connects and disconnects on the pool.
Cex_C12_ConnectionCap == Cardinality(AdmittedLive) <= max_total_connections

\* C7: from the welcome of an admitted client until its disconnect is
\* processed (HandleDisconnect has removed its membership) the client is a
\* member of exactly one existing room, its recorded room.
Thm_C7_OneRoomWhileConnected ==
    \A c \in welcomed :
        disconnected[c] = 0 =>
            /\ Cardinality(InRooms(c)) = 1
            /\ c \in DOMAIN client_rooms
            /\ InRooms(c) = {client_rooms[c]}

\* a welcomed, still connected client sits in room a after a command, while
\* another welcomed client is connected too
Wit_C7_WelcomedInRoomA ==
    \E c, d \in welcomed :
        /\ c # d
        /\ disconnected[c] = 0 /\ disconnected[d] = 0
        /\ c \in DOMAIN client_rooms /\ client_rooms[c] = "a"


\* the chat lines of c up to the i-th that fall in the minute ending with it
InMinute(c, i) ==
    {j \in 1..i : chat_log[c][j].at > chat_log[c][i].at - minutes(1)}

\* C15: when a named client sends max_messages_per_minute + 1 chat lines
\* within one minute, each of the first max_messages_per_minute is stored
\* and sent to the other members of its room, and the one after them is not
\* stored, reaches no other client and yields only the rate-limit reply.
Cex_C15_ChatRateLimit ==
    \A c \in Clients : \A i \in DOMAIN chat_log[c] :
        /\ (~chat_log[c][i].muted
              /\ Cardinality(InMinute(c, i)) <= max_messages_per_minute)
           => chat_log[c][i].out
                  = Broadcast(c, chat_log[c][i].others, ChatNames[c])
        /\ (/\ i > max_messages_per_minute
            /\ \A j \in (i - max_messages_per_minute)..(i - 1) :
                   j \in InMinute(c, i) /\ chat_log[c][j].out.stored)
           => chat_log[c][i].out = Refused(c)

\* C16: a chunk of a client that is muted when its callback starts is not
\* stored, is broadcast to nobody and is answered with "You are muted."
\* alone; the first chat line after the mute has expired is broadcast.
Cex_C16_MutedReply ==
    /\ [][\A w \in PoolWorkers :
            (/\ wk[w].pc = "msg_begin"
             /\ wk'[w].pc # "msg_begin"
             /\ IsMuted(muted_clients, wk[w].client, now))
            => /\ wk'[w].pc = "idle"
               /\ out' = MutedReply(wk[w].client)
               /\ room_messages' = room_messages]_vars
    /\ [](\A c \in Clients : \A i \in DOMAIN chat_log[c] :
            (/\ i > 1
             /\ chat_log[c][i - 1].muted
             /\ ~chat_log[c][i].muted
             /\ Cardinality(InMinute(c, i)) <= max_messages_per_minute)
            => chat_log[c][i].out
                   = Broadcast(c, chat_log[c][i].others, ChatNames[c]))

\* C19: a sweep returns every connected client whose connect or last chunk
\* is older than connection_timeout_seconds, whether or not it has sent a
\* chunk since connecting.
Cex_C19_IdleSweep ==
    [][(main_loop.pc = "sleep" /\ main_loop'.pc = "disconnect")
        => \A c \in clients :
              (c \in DOMAIN last_chunk
                 /\ now - last_chunk[c] > seconds(connection_timeout_seconds))
              => c \in main_loop'.timed_out]_vars


Cex_C22_LogFileBounded ==
    log_file.is_open
        => files[log_file.day] <= max_file_size + LineSize

\* HandleConnect of c has run to its end
ConnectDone(c) ==
    /\ c < next_client_id
    /\ \A i \in DOMAIN tasks : ~(tasks[i].kind = "connect" /\ tasks[i].client = c)
    /\ \A w \in PoolWorkers : ~(wk[w].kind = "connect" /\ wk[w].client = c)

\* HandleConnect of c returned without the welcome: AllowConnection refused c
RefusedAtConnect(c) == ConnectDone(c) /\ c \notin welcomed

\* HandleDisconnect, "Notify room": the clients that are sent the bye line
ByeRecipients(rs, room) == IF room # "" THEN GetRoomMembers(rs, room) ELSE {}

\* C30: a client refused by AllowConnection is never a member of a room, and
\* the processing of its disconnect changes neither the room memberships nor
\* the connection count and sends no line to another client.
Cex_C30_RefusedLeavesNoTrace ==
    /\ [](\A c \in DOMAIN disconnected :
            RefusedAtConnect(c)
            => /\ c \notin DOMAIN client_rooms
               /\ \A r \in DOMAIN rooms : c \notin rooms[r].members)
    /\ [][\A w \in PoolWorkers :
            (/\ wk[w].pc = "disc_leave"
             /\ wk'[w].pc = "idle"
             /\ RefusedAtConnect(wk[w].client))
            => /\ rooms' = rooms
               /\ client_rooms' = client_rooms
               /\ current_connections' = current_connections
               /\ ByeRecipients(rooms', wk[w].room) \ {wk[w].client} = {}]_vars

\* the members of c's room other than c, who get c's join notice or chat line
Roommates(rs, cr, c) == GetRoomMembers(rs, GetClientRoom(cr, c)) \ {c}

\* C26: no join notice, chat line or leave notice is sent to a client before
\* HandleConnect has sent it the welcome, for every interleaving of the pool.
Cex_C26_WelcomeFirst ==
    [][\A w \in PoolWorkers :
         /\ (wk[w].pc \in {"msg_setname", "msg_broadcast"} /\ wk'[w].pc = "idle")
            => Roommates(rooms, client_rooms, wk[w].client) \subseteq welcomed
         /\ (wk[w].pc = "disc_leave" /\ wk'[w].pc = "idle")
            => ByeRecipients(rooms', wk[w].room) \subseteq welcomed]_vars

\* HandleAccept has run for c
Accepted(c) == c < next_client_id

\* C27: a client that is in the client table has its socket open; a client
\* that was accepted and is no longer in the table had its socket closed
\* exactly once, whichever of the CleanupClient calls and Stop removed it and
\* however many more CleanupClient calls named it.
Thm_C27_SocketClosedOnce ==
    \A c \in Clients :
        /\ closes[c] <= 1
        /\ c \in clients => (Accepted(c) /\ closes[c] = 0)
        /\ (Accepted(c) /\ c \notin clients) => closes[c] = 1
        /\ ~Accepted(c) => closes[c] = 0

\* Stop has returned, and a client whose socket was closed once was named by
\* two CleanupClient calls; another client was closed by Stop and then named
\* by a CleanupClient call
Wit_C27_CleanupTwiceAndStop ==
    /\ StopReturned
    /\ \E c \in Clients \ stop_closed :
          Accepted(c) /\ c \notin clients /\ closes[c] = 1 /\ fired[c] >= 2
    /\ \E c \in stop_closed : closes[c] = 1 /\ fired[c] >= 1

\* ------------------------------------------------------------------------
\* #ban and the admission of later connections (server.cpp, sockutil.cpp),
\* the callbacks running one at a time
\* ------------------------------------------------------------------------
MaxBanClients == 3
BanClients == 1..MaxBanClients
\* the client that types the #ban commands (any named client may)
Moderator == 1
Ports == {1, 2}

\* std::to_string(ntohs(addr.sin_port))
PortText(p) == <<"50001", "50002", "50003", "50004">>[p]

\* GetSocketAddress of a connected socket: "<ip>:<port>" of the peer
GetSocketAddress(h, p) == h \o ":" \o PortText(p)

\* the IP address inside a string made by GetSocketAddress
HostOf(a) == CHOOSE h \in Ips : \E p \in Ports : GetSocketAddress(h, p) = a

serialFrame == <<rooms_mutex, rpc, running, stop_pc, shutVars, wk, g_running,
              delivered, stop_closed, disconnected, muted_clients, mutex_owner,
              storeVars, conn_granted, msg_granted, mute_calls, out,
              last_chunk, chat_log, main_loop, stored_log>>

\* time passes between callbacks
SerialAdvance(d) == tasks = <<>> /\ Advance(d)

\* AcceptConnections / HandleAccept for a peer at address h, port p
PeerAccept(c, h, p) ==
    /\ running
    /\ c = next_client_id
    /\ c \in BanClients
    /\ tasks = <<>>
    /\ \A d \in clients : ip_address[d] # GetSocketAddress(h, p)
    /\ next_client_id' = c + 1
    /\ clients' = clients \cup {c}
    /\ ip_address' = MapPut(ip_address, c, GetSocketAddress(h, p))
    /\ io' = [io EXCEPT ![c] = "pending"]
    /\ tasks' = Enqueue(tasks, stop, Task("connect", c, NoChunk))
    /\ UNCHANGED <<roomVars, last, closes, g_client_names, current_connections,
                   last_activity, fired, welcomed, now, connection_timestamps,
                   client_messages, banned_ips, advances, serialFrame>>

\* the pool runs HandleConnect for the task at the front of the queue
RunConnect ==
    LET c       == Head(tasks).client
        ip      == ip_address[c]
        passed  == ~IsBanned(banned_ips, ip)
                     /\ AllowConnection(current_connections)
        allowed == passed /\ RateAllowed(connection_timestamps, now)
    IN
    /\ tasks # <<>>
    /\ Head(tasks).kind = "connect"
    /\ connection_timestamps' =
           IF passed THEN RateTimestamps(connection_timestamps, now)
           ELSE connection_timestamps
    /\ last' = Done("HandleConnect", ip, c, allowed)
    /\ IF allowed
       THEN /\ current_connections' = current_connections + 1
            /\ rooms' = JoinRoomRooms(rooms, client_rooms, "general", c, "")
            /\ client_rooms' =
                   JoinRoomClientRooms(rooms, client_rooms, "general", c, "")
            /\ welcomed' = welcomed \cup {c}
            /\ tasks' = Tail(tasks)
            /\ UNCHANGED <<clients, closes, io, fired>>
       ELSE /\ clients' = CleanupErase(clients, c)
            /\ closes' = CleanupSockets(closes, clients, c)
            /\ io' = AbortRead(io, clients, c)
            /\ tasks' = CleanupTasks(Tail(tasks), stop, c)
            /\ fired' = [fired EXCEPT ![c] = @ + 1]
            /\ UNCHANGED <<roomVars, current_connections, welcomed>>
    /\ UNCHANGED <<next_client_id, g_client_names, last_activity, now,
                   client_messages, banned_ips, ip_address, advances, serialFrame>>

\* the pool runs HandleDisconnect for the task at the front of the queue
RunDisconnect ==
    LET c == Head(tasks).client IN
    /\ tasks # <<>>
    /\ Head(tasks).kind = "disconnect"
    /\ rooms' = LeaveRoomRooms(rooms, client_rooms, c)
    /\ client_rooms' = LeaveRoomClientRooms(client_rooms, c)
    /\ current_connections' = OnDisconnect(current_connections)
    /\ g_client_names' = MapErase(g_client_names, c)
    /\ tasks' = Tail(tasks)
    /\ io' = [io EXCEPT ![c] = "none"]
    /\ UNCHANGED <<last, next_client_id, clients, closes, last_activity, fired,
                   welcomed, now, connection_timestamps, client_messages,
                   banned_ips, ip_address, advances, serialFrame>>

\* a welcomed client sends its name or "#ban <target>"; HandleMessage runs to
\* its end: AllowMessage, RecordMessage, the name registration or
\* ProcessCommand #ban (look the target up, GetClient, Ban(client->ip_address),
\* DisconnectClient)
BanMessage(c, cmd, arg) ==
    LET named   == GetClientName(g_client_names, c) # Placeholder(c)
        targets == NamedAs(g_client_names, arg) \cap clients
    IN
    /\ running
    /\ c \in clients \cap welcomed
    /\ tasks = <<>>
    /\ named <=> (cmd = "#ban")
    /\ client_messages' =
           IF AllowMessage(muted_clients, client_messages, c, now)
           THEN RecordMessage(AllowMessageMessages(muted_clients,
                                                   client_messages, c, now),
                              c, now)
           ELSE AllowMessageMessages(muted_clients, client_messages, c, now)
    /\ last_activity' =
           IF AllowMessage(muted_clients, client_messages, c, now)
           THEN UpdateActivity(last_activity, c, now) ELSE last_activity
    /\ IF ~AllowMessage(muted_clients, client_messages, c, now)
       THEN /\ last' = Done("HandleMessage", arg, c, FALSE)
            /\ UNCHANGED <<g_client_names, banned_ips, clients, closes, io,
                           tasks, fired>>
       ELSE IF cmd = "text"
       THEN /\ g_client_names' = MapPut(g_client_names, c, arg)
            /\ last' = Done("HandleMessage", arg, c, TRUE)
            /\ UNCHANGED <<banned_ips, clients, closes, io, tasks, fired>>
       ELSE IF targets = {}
       THEN /\ last' = Done("#ban", arg, c, FALSE)
            /\ UNCHANGED <<g_client_names, banned_ips, clients, closes, io,
                           tasks, fired>>
       ELSE \E t \in targets :
            /\ banned_ips' = banned_ips \cup {ip_address[t]}
            /\ clients' = CleanupErase(clients, t)
            /\ closes' = CleanupSockets(closes, clients, t)
            /\ io' = AbortRead(io, clients, t)
            /\ tasks' = CleanupTasks(tasks, stop, t)
            /\ fired' = [fired EXCEPT ![t] = @ + 1]
            /\ last' = Done("#ban", ip_address[t], t, TRUE)
            /\ UNCHANGED g_client_names
    /\ UNCHANGED <<roomVars, next_client_id, current_connections, welcomed,
                   now, connection_timestamps, ip_address, advances, serialFrame>>

InitBan == InitRoomManager /\ InitServerFor(BanClients) /\ InitPolicy

NextBan ==
    \/ \E c \in BanClients, h \in Ips, p \in Ports : PeerAccept(c, h, p)
    \/ RunConnect
    \/ RunDisconnect
    \/ \E c \in BanClients : BanMessage(c, "text", ChatNames[c])
    \/ \E t \in BanClients : BanMessage(Moderator, "#ban", ChatNames[t])
    \/ \E d \in AdvanceSteps : SerialAdvance(d)

SpecBan == InitBan /\ [][NextBan]_vars

\* the IP addresses of the clients that #ban was used against
BannedHosts == {HostOf(a) : a \in banned_ips}

\* C28: a client that #ban succeeded against is no longer connected, and a
\* connection attempt from the IP address of a banned client, from any source
\* port, is refused at connect.
Cex_C28_BanByIpAddress ==
    /\ (last.op = "#ban" /\ last.ret) => last.id \notin clients
    /\ (last.op = "HandleConnect" /\ HostOf(last.name) \in BannedHosts)
           => ~last.ret

\* ------------------------------------------------------------------------
\* The ConnectionManager mutexes (connection_manager.cpp): each call as the
\* steps between its lock acquisitions and releases
\* ------------------------------------------------------------------------
MaxRecorded == 2    \* RecordMessage calls per client over a run

lockFrame == <<roomVars, rooms_mutex, running, next_client_id, clients, closes,
               io, stop_pc, tasks, shutVars, wk, g_running, g_client_names,
               current_connections, fired, welcomed, disconnected, delivered,
               stop_closed, now, connection_timestamps, banned_ips, ip_address,
               storeVars, histVars>>

\* w32::LockGuard lock(m): blocks until the mutex is free
Acquire(t, m) ==
    /\ mutex_owner[m] = NoThread
    /\ mutex_owner' = [mutex_owner EXCEPT ![m] = t]

\* ~LockGuard
Release(t, m) ==
    /\ mutex_owner[m] = t
    /\ mutex_owner' = [mutex_owner EXCEPT ![m] = NoThread]

At(t, pc, c) == rpc' = [rpc EXCEPT ![t] = [pc |-> pc, name |-> "", id |-> c,
                                           moved |-> {}]]
Return(t, op, ret) ==
    /\ rpc' = [rpc EXCEPT ![t] = Idle]
    /\ last' = Done(op, "", rpc[t].id, ret)

\* the mutexes a thread is inside
Held(t) == {m \in ControllerMutexes : mutex_owner[m] = t}

\* the mutex the next step of a thread acquires
Wanted(t) ==
    CASE rpc[t].pc = "am_lock"     -> {"message_mutex"}
      [] rpc[t].pc = "rm_activity" -> {"activity_mutex"}
      [] OTHER                     -> {}

\* AllowMessage: IsMuted locks mute_mutex
AllowMessageEnter(t, c) ==
    /\ CallIdle(t)
    /\ Acquire(t, "mute_mutex")
    /\ At(t, "am_muted", c)
    /\ UNCHANGED <<last, last_activity, client_messages, muted_clients,
                   lockFrame>>

\* AllowMessage: IsMuted looks the client up, erases an expired mute, unlocks
AllowMessageMuted(t) ==
    /\ rpc[t].pc = "am_muted"
    /\ muted_clients' = IsMutedErase(muted_clients, rpc[t].id, now)
    /\ Release(t, "mute_mutex")
    /\ IF IsMuted(muted_clients, rpc[t].id, now)
       THEN Return(t, "AllowMessage", FALSE)
       ELSE At(t, "am_lock", rpc[t].id) /\ UNCHANGED last
    /\ UNCHANGED <<last_activity, client_messages, lockFrame>>

\* AllowMessage: LockGuard lock(message_mutex)
AllowMessageLock(t) ==
    /\ rpc[t].pc = "am_lock"
    /\ Acquire(t, "message_mutex")
    /\ At(t, "am_window", rpc[t].id)
    /\ UNCHANGED <<last, last_activity, client_messages, muted_clients,
                   lockFrame>>

\* AllowMessage: expire the old timestamps, compare, unlock
AllowMessageWindow(t) ==
    /\ rpc[t].pc = "am_window"
    /\ client_messages' =
           MapPut(client_messages, rpc[t].id,
                  MessageWindow(client_messages, rpc[t].id, now))
    /\ Release(t, "message_mutex")
    /\ Return(t, "AllowMessage",
              Len(MessageWindow(client_messages, rpc[t].id, now))
                  < max_messages_per_minute)
    /\ UNCHANGED <<last_activity, muted_clients, lockFrame>>

\* RecordMessage: LockGuard lock(message_mutex); push_back
RecordMessageEnter(t, c) ==
    /\ CallIdle(t)
    /\ Len(MessagesOf(client_messages, c)) < MaxRecorded
    /\ Acquire(t, "message_mutex")
    /\ client_messages' = RecordMessage(client_messages, c, now)
    /\ At(t, "rm_activity", c)
    /\ UNCHANGED <<last, last_activity, muted_clients, lockFrame>>

\* RecordMessage: UpdateActivity(client_id) locks activity_mutex
RecordMessageActivity(t) ==
    /\ rpc[t].pc = "rm_activity"
    /\ Acquire(t, "activity_mutex")
    /\ At(t, "rm_update", rpc[t].id)
    /\ UNCHANGED <<last, last_activity, client_messages, muted_clients,
                   lockFrame>>

\* RecordMessage: UpdateActivity writes the entry and unlocks
RecordMessageUpdate(t) ==
    /\ rpc[t].pc = "rm_update"
    /\ last_activity' = UpdateActivity(last_activity, rpc[t].id, now)
    /\ Release(t, "activity_mutex")
    /\ At(t, "rm_exit", rpc[t].id)
    /\ UNCHANGED <<last, client_messages, muted_clients, lockFrame>>

\* RecordMessage returns: message_mutex is unlocked
RecordMessageExit(t) ==
    /\ rpc[t].pc = "rm_exit"
    /\ Release(t, "message_mutex")
    /\ Return(t, "RecordMessage", TRUE)
    /\ UNCHANGED <<last_activity, client_messages, muted_clients, lockFrame>>

\* CheckTimeouts: LockGuard lock(activity_mutex)
CheckTimeoutsEnter(t) ==
    /\ CallIdle(t)
    /\ Acquire(t, "activity_mutex")
    /\ At(t, "ct_scan", 0)
    /\ UNCHANGED <<last, last_activity, client_messages, muted_clients,
                   lockFrame>>

\* CheckTimeouts: the scan, unlock
CheckTimeoutsScan(t) ==
    /\ rpc[t].pc = "ct_scan"
    /\ Release(t, "activity_mutex")
    /\ Return(t, "CheckTimeouts",
              CheckTimeouts(last_activity, DOMAIN last_activity, now) # {})
    /\ UNCHANGED <<last_activity, client_messages, muted_clients, lockFrame>>

\* Mute: LockGuard lock(mute_mutex)
MuteEnter(t, c) ==
    /\ CallIdle(t)
    /\ Acquire(t, "mute_mutex")
    /\ At(t, "mu_write", c)
    /\ UNCHANGED <<last, last_activity, client_messages, muted_clients,
                   lockFrame>>

\* Mute(c, 0): the entry is written, unlock
MuteWrite(t) ==
    /\ rpc[t].pc = "mu_write"
    /\ muted_clients' = Mute(muted_clients, rpc[t].id, 0, now)
    /\ Release(t, "mute_mutex")
    /\ Return(t, "Mute", TRUE)
    /\ UNCHANGED <<last_activity, client_messages, lockFrame>>

InitLocks == InitRoomManager /\ InitServer /\ InitPolicy

NextLocks ==
    \/ \E t \in Threads, c \in Clients : AllowMessageEnter(t, c)
    \/ \E t \in Threads : AllowMessageMuted(t)
    \/ \E t \in Threads : AllowMessageLock(t)
    \/ \E t \in Threads : AllowMessageWindow(t)
    \/ \E t \in Threads, c \in Clients : RecordMessageEnter(t, c)
    \/ \E t \in Threads : RecordMessageActivity(t)
    \/ \E t \in Threads : RecordMessageUpdate(t)
    \/ \E t \in Threads : RecordMessageExit(t)
    \/ \E t \in Threads : CheckTimeoutsEnter(t)
    \/ \E t \in Threads : CheckTimeoutsScan(t)
    \/ \E t \in Threads, c \in Clients : MuteEnter(t, c)
    \/ \E t \in Threads : MuteWrite(t)

SpecLocks == InitLocks /\ [][NextLocks]_vars

\* C29: no thread is inside two of the controller mutexes at once, and no
\* thread that is about to acquire one of them is inside another.
Cex_C29_NoLockHeldAcrossCalls ==
    \A t \in Threads :
        /\ Cardinality(Held(t)) <= 1
        /\ Wanted(t) # {} => Held(t) = {}

\* C23: when BroadcastToRoom runs for a chunk of a welcomed, named client,
\* the line carries the name the client registered and goes to the other
\* members of the room the sender is a member of, and to no member of
\* another room.
Cex_C23_BroadcastToOwnRoom ==
    [][\A w \in PoolWorkers :
         (/\ wk[w].pc = "msg_broadcast"
          /\ wk'[w].pc = "idle"
          /\ wk[w].client \in welcomed)
         => /\ GetClientName(g_client_names, wk[w].client)
                  # Placeholder(wk[w].client)
            /\ wk[w].client
                  \in GetRoomMembers(rooms,
                                     GetClientRoom(client_rooms, wk[w].client))]_vars

\* ------------------------------------------------------------------------
\* HandleMessage on the bytes of a chunk (server.cpp): the trim, the parse
\* of #whisper and the lines sent, the callbacks running one at a time
\* ------------------------------------------------------------------------
MaxTalkChunks == 4      \* chunks read over a run

\* a chunk is a sequence of pieces: words without white space, and the bytes
\* ' ', '\r', '\n', '\0' one by one
SP  == " "
CR  == "\r"
LF  == "\n"
NUL == "\\0"

RECURSIVE Flat(_)
\* std::string of a sequence of pieces
Flat(s) == IF s = <<>> THEN "" ELSE Head(s) \o Flat(Tail(s))

\* a trim that leaves trailing NUL bytes in place
RECURSIVE Mut_Trim(_)
Mut_Trim(msg) ==
    IF msg # <<>> /\ msg[Len(msg)] \in {LF, CR}
    THEN Mut_Trim(SubSeq(msg, 1, Len(msg) - 1)) ELSE msg

\* HandleMessage, "Trim whitespace": pop_back while the last byte is '\n',
\* '\r' or '\0'
RECURSIVE Trim(_)
Trim(msg) ==
    IF msg # <<>> /\ msg[Len(msg)] \in {LF, CR, NUL}
    THEN Trim(SubSeq(msg, 1, Len(msg) - 1)) ELSE msg

\* std::isspace, as operator>> uses it
IsSpace(b) == b \in {SP, CR, LF}

\* operator>>(istream, string): skip leading white space, ...
RECURSIVE SkipSpace(_)
SkipSpace(s) == IF s # <<>> /\ IsSpace(Head(s)) THEN SkipSpace(Tail(s)) ELSE s

\* ... then take the bytes up to the next white space
RECURSIVE WordOf(_)
WordOf(s) ==
    IF s # <<>> /\ ~IsSpace(Head(s)) THEN <<Head(s)>> \o WordOf(Tail(s))
    ELSE <<>>
RECURSIVE AfterWord(_)
AfterWord(s) ==
    IF s # <<>> /\ ~IsSpace(Head(s)) THEN AfterWord(Tail(s)) ELSE s

\* iss >> word: the word read and what is left in the stream
Extract(s) == [word |-> Flat(WordOf(SkipSpace(s))),
               rest |-> AfterWord(SkipSpace(s))]

\* a getline that skips the white space in front of the line
RECURSIVE Mut_GetLine(_)
Mut_GetLine(s) ==
    IF SkipSpace(s) # <<>> /\ Head(SkipSpace(s)) # LF
    THEN <<Head(SkipSpace(s))>> \o Mut_GetLine(Tail(SkipSpace(s)))
    ELSE <<>>

\* std::getline(iss, line): the bytes up to the next '\n', white space kept
RECURSIVE GetLine(_)
GetLine(s) ==
    IF s # <<>> /\ Head(s) # LF THEN <<Head(s)>> \o GetLine(Tail(s)) ELSE <<>>

Mut_IsCommand(msg) == FALSE

\* msg[0] == '#'
IsCommand(msg) == Head(msg) \in {"#whisper", "#create", "#nope"}

\* SendToClient: nothing for an empty message, '\n' appended when missing
SendToClient(c, msg) ==
    IF msg = <<>> THEN {}
    ELSE {Line(c, "line",
               Flat(IF msg[Len(msg)] # LF THEN Append(msg, LF) ELSE msg))}

\* ProcessCommand #whisper: the lines sent, to target t (0: not found)
Whisper(c, name, msg, t) ==
    LET target_name == Extract(Extract(msg).rest).word
        private_msg == GetLine(Extract(Extract(msg).rest).rest)
    IN  IF target_name = "" \/ private_msg = <<>>
        THEN SendToClient(c, <<"Usage: #whisper <username> <message>">>)
        ELSE IF t = 0
        THEN SendToClient(c, <<"User not found: ", target_name>>)
        ELSE SendToClient(t, <<"[Whisper from ", name, "]:">> \o private_msg)
             \cup SendToClient(c, <<"[Whisper to ", target_name, "]:">>
                                      \o private_msg)

\* ProcessCommand #whisper, "Find target": the ids the loop may stop at
WhisperTargets(names, msg) ==
    IF NamedAs(names, Extract(Extract(msg).rest).word) = {} THEN {0}
    ELSE NamedAs(names, Extract(Extract(msg).rest).word)

\* ProcessCommand #create: iss >> room_name; CreateRoom, JoinRoom
CreateArg(msg) == Extract(Extract(msg).rest).word
CreateRuns(rs, msg) ==
    /\ Extract(msg).word = "#create"
    /\ CreateArg(msg) # ""
    /\ CreateRoomOk(rs, CreateArg(msg))
CreateRooms(rs, cr, c, msg) ==
    IF CreateRuns(rs, msg)
    THEN JoinRoomRooms(CreateRoomRooms(rs, CreateArg(msg), c, FALSE, ""), cr,
                       CreateArg(msg), c, "")
    ELSE rs
CreateClientRooms(rs, cr, c, msg) ==
    IF CreateRuns(rs, msg)
    THEN JoinRoomClientRooms(CreateRoomRooms(rs, CreateArg(msg), c, FALSE, ""),
                             cr, CreateArg(msg), c, "")
    ELSE cr
Create(rs, c, msg) ==
    IF CreateArg(msg) = ""
    THEN SendToClient(c, <<"Usage: #create <room_name>">>)
    ELSE IF CreateRoomOk(rs, CreateArg(msg))
    THEN SendToClient(c, <<"Created and joined #", CreateArg(msg)>>)
    ELSE SendToClient(c, <<"Failed to create room. Does it already exist?">>)

\* ProcessCommand: the branch taken for the first word of the line
ProcessCommand(rs, c, name, msg, t) ==
    IF Extract(msg).word = "#whisper" THEN Whisper(c, name, msg, t)
    ELSE IF Extract(msg).word = "#create" THEN Create(rs, c, msg)
    ELSE SendToClient(c, <<"Unknown command. Type #help for available commands.">>)

\* BroadcastToRoom: formatted = name + ": " + message, to the other members
BroadcastLines(c, name, others, msg) ==
    UNION {SendToClient(m, <<name, ": ">> \o msg) : m \in others}

talkFrame == <<rooms_mutex, rpc, running, next_client_id, clients,
               closes, io, stop_pc, tasks, shutVars, wk, g_running,
               current_connections, fired, welcomed, disconnected,
               stop_closed, now, connection_timestamps, banned_ips,
               mutex_owner, ip_address, advances, conn_granted, msg_granted,
               mute_calls, last_chunk, chat_log, main_loop>>

\* what HandleMessage did with the chunk
Handled(how, c, msg) == Done(how, Flat(msg), c, TRUE)

\* a connected peer sends the bytes of chunk; HandleRead enqueues them and the
\* pool runs HandleMessage to its end
TalkMessage(c, chunk) ==
    LET msg    == Trim(chunk)
        name   == GetClientName(g_client_names, c)
        room   == GetClientRoom(client_rooms, c)
        others == GetRoomMembers(rooms, room) \ {c}
        allow  == AllowMessage(muted_clients, client_messages, c, now)
        muted  == IsMuted(muted_clients, c, now)
        stored == ChatMessage(c, name, room, Flat(msg))
    IN
    /\ running
    /\ c \in clients \cap welcomed
    /\ tasks = <<>>
    /\ delivered < MaxTalkChunks
    /\ delivered' = delivered + 1
    /\ IF msg = <<>>
       THEN /\ out' = Output(c, {}, FALSE)
            /\ last' = Handled("dropped", c, msg)
            /\ UNCHANGED <<client_messages, muted_clients, last_activity,
                           g_client_names, storeVars, stored_log, roomVars>>
       ELSE IF ~allow
       THEN /\ client_messages' =
                   AllowMessageMessages(muted_clients, client_messages, c, now)
            /\ muted_clients' = IsMutedErase(muted_clients, c, now)
            /\ out' = Output(c, SendToClient(c, <<TooMany>>), FALSE)
            /\ last' = Handled("refused", c, msg)
            /\ UNCHANGED <<last_activity, g_client_names, storeVars, stored_log,
                           roomVars>>
       ELSE /\ client_messages' =
                   RecordMessage(AllowMessageMessages(muted_clients,
                                                      client_messages, c, now),
                                 c, now)
            /\ muted_clients' = IsMutedErase(muted_clients, c, now)
            /\ last_activity' = UpdateActivity(last_activity, c, now)
            /\ IF muted
               THEN /\ out' = Output(c, SendToClient(c, <<YouAreMuted>>), FALSE)
                    /\ last' = Handled("muted", c, msg)
                    /\ UNCHANGED <<g_client_names, storeVars, stored_log,
                                   roomVars>>
               ELSE IF name = Placeholder(c) /\ ~IsCommand(msg)
               THEN /\ g_client_names' = MapPut(g_client_names, c, Flat(msg))
                    /\ out' = Output(c, UNION {SendToClient(m,
                                  msg \o <<" has joined #", room>>) : m \in others},
                                     FALSE)
                    /\ last' = Handled("name", c, msg)
                    /\ UNCHANGED <<storeVars, stored_log, roomVars>>
               ELSE IF IsCommand(msg)
               THEN /\ \E t \in WhisperTargets(g_client_names, msg) :
                          out' = Output(c, ProcessCommand(rooms, c, name,
                                                          msg, t), FALSE)
                    /\ rooms' = CreateRooms(rooms, client_rooms, c, msg)
                    /\ client_rooms' =
                           CreateClientRooms(rooms, client_rooms, c, msg)
                    /\ last' = Handled("command", c, msg)
                    /\ UNCHANGED <<g_client_names, storeVars, stored_log>>
               ELSE /\ room_messages' = Store(room_messages, stored)
                    /\ FileBecomes(StoreFile(TheFile, today, disk_ok))
                    /\ UNCHANGED <<today, disk_ok>>
                    /\ stored_log' = MapPut(stored_log, room,
                                 Append(MessagesIn(stored_log, room), stored))
                    /\ out' = Output(c, BroadcastLines(c, name, others, msg), TRUE)
                    /\ last' = Handled("text", c, msg)
                    /\ UNCHANGED <<g_client_names, roomVars>>
    /\ UNCHANGED talkFrame

\* the peers: client 1 and client 2 connect from two ports of one address
TalkPort(c) == c

\* what the peers send
Endings == {<<>>, <<LF>>, <<CR, LF>>}
Blanks == {<<LF>>, <<CR, LF>>, <<NUL>>, <<CR, LF, NUL>>}
Separators == {<<SP>>, <<SP, SP>>}
Users == {"alice", "bob", "carol"}
Texts == {<<"hello", SP, "there">>}

\* "#whisper<sep><user><sep><text><end>"
WhisperChunk(u, sep, text, end) == <<"#whisper", SP, u>> \o sep \o text \o end

WhisperChunks ==
    {WhisperChunk(u, sep, text, end) :
        u \in Users, sep \in Separators, text \in Texts, end \in Endings}

TalkChunks(c) ==
    {<<ChatNames[c], LF>>, <<Placeholder(c), LF>>, <<"hi", CR, LF>>,
     <<"#whisper", SP, "bob", LF>>,
     <<"#create", SP, "a", LF>>, <<"#nope", LF>>}
        \cup Blanks \cup WhisperChunks

InitTalk == InitRoomManager /\ InitServer /\ InitPolicy

NextTalk ==
    \/ \E c \in Clients : PeerAccept(c, "10.0.0.1", TalkPort(c))
    \/ RunConnect
    \/ \E c \in Clients : \E chunk \in TalkChunks(c) : TalkMessage(c, chunk)

SpecTalk == InitTalk /\ [][NextTalk]_vars

\* HandleMessage ran the chunk as a command of c (it was neither dropped nor
\* refused)
RanCommand(c) == last'.op = "command" /\ last'.id = c

\* the lines of a whisper of c to user u, found as client t, with the text
\* that follows "]:"
WhisperLines(c, name, u, t, tail) ==
    {Line(t, "line", "[Whisper from " \o name \o "]:" \o tail \o LF),
     Line(c, "line", "[Whisper to " \o u \o "]:" \o tail \o LF)}

\* what a whisper of c to user u sends when the text after "]:" is tail
WhisperDelivers(c, u, tail) ==
    IF NamedAs(g_client_names, u) = {}
    THEN /\ out'.sent # {}
         /\ \A l \in out'.sent : l[1] = c
    ELSE \E t \in NamedAs(g_client_names, u) :
            out'.sent = WhisperLines(c, GetClientName(g_client_names, c),
                                     u, t, tail)

OnlyTerminators(chunk) ==
    \A i \in DOMAIN chunk : chunk[i] \in {CR, LF, NUL}

Cex_C39_GoneAfterDisconnect ==
    \A c \in DOMAIN disconnected :
        disconnected[c] >= 1
        => /\ c \notin DOMAIN client_rooms
           /\ \A r \in DOMAIN rooms : c \notin rooms[r].members
           /\ c \notin DOMAIN g_client_names


\* C34: each time the disconnect of a client that HandleConnect has admitted
\* is processed, the client was in a room and leaves it, the connection count drops by exactly one, and the
\* `<name> has left the chat` line goes to exactly the remaining members of
\* the room the client was in.
Cex_C34_DisconnectProcessedOnce ==
    [][\A w \in PoolWorkers :
         (/\ wk[w].pc = "disc_leave"
          /\ wk'[w].pc = "idle"
          /\ wk[w].client \in welcomed)
         => LET c == wk[w].client IN
            /\ c \in DOMAIN client_rooms
            /\ c \notin DOMAIN client_rooms'
            /\ c \notin DOMAIN g_client_names'
            /\ current_connections' = current_connections - 1
            /\ ByeRecipients(rooms', wk[w].room)
                 = rooms[client_rooms[c]].members \ {c}]_vars


\* C35: when JoinRoom of `#join <room>` runs for an admitted client that is in
\* room old: a missing room leaves the rooms as they are; otherwise the client
\* is moved from old to <room>, old is a different room, and the
\* `<name> left #old` notice names the room the client has just left.
Cex_C35_JoinMovesFromOld ==
    [][\A w \in PoolWorkers :
         (/\ wk[w].pc = "join_room"
          /\ wk'[w].pc = "idle"
          /\ wk[w].client \in welcomed)
         => LET c == wk[w].client
                room == wk[w].chunk.arg
                old == GetClientRoom(client_rooms, c)
            IN IF room \notin DOMAIN rooms
               THEN rooms' = rooms /\ client_rooms' = client_rooms
               ELSE /\ c \in DOMAIN client_rooms
                    /\ old # room
                    /\ wk[w].room = old
                    /\ client_rooms'[c] = room
                    /\ c \in rooms'[room].members
                    /\ c \notin rooms'[old].members]_vars


\* a chunk whose first byte is '#'
StartsWithHash(chunk) == Head(chunk) \in {"#whisper", "#create", "#nope"}

\* client c still has the placeholder name and sends a chunk that is not
\* blank; HandleMessage runs for it
FromUnnamed(c, chunk) ==
    /\ GetClientName(g_client_names, c) = Placeholder(c)
    /\ ~OnlyTerminators(chunk)
    /\ TalkMessage(c, chunk)

\* the chunk of c is let through by AllowMessage and IsMuted
PassesChecks(c) ==
    /\ AllowMessage(muted_clients, client_messages, c, now)
    /\ ~IsMuted(muted_clients, c, now)

\* the chunk is registered as the name of c, is not stored or logged as
\* chat, moves nobody, and `<name> has joined #<room>` goes to every other
\* member of room and to nobody else
RegisteredIn(c, chunk, room) ==
    /\ g_client_names' = MapPut(g_client_names, c, Flat(Trim(chunk)))
    /\ ~out'.stored
    /\ room_messages' = room_messages
    /\ stored_log' = stored_log
    /\ files' = files
    /\ rooms' = rooms /\ client_rooms' = client_rooms
    /\ out'.sent =
         {Line(m, "line", Flat(Trim(chunk)) \o " has joined #" \o room \o LF) :
            m \in GetRoomMembers(rooms, room) \ {c}}

\* C32 as stated: the first chunk without '#' of an unnamed client becomes its
\* name, the client is in general afterwards and the notice is
\* `<name> has joined #general` to the other members of general; a chunk
\* with '#' sets no name.
Cex_C32_NameJoinsGeneral ==
    [][\A c \in Clients : \A chunk \in TalkChunks(c) :
         (PassesChecks(c) /\ FromUnnamed(c, chunk))
         => IF StartsWithHash(chunk)
            THEN g_client_names' = g_client_names
            ELSE /\ RegisteredIn(c, chunk, "general")
                 /\ GetClientRoom(client_rooms', c) = "general"]_vars

\* C32: the first chunk without '#' of an unnamed client that passes the rate
\* and mute checks becomes its name and is neither stored nor broadcast; the
\* client stays in the room r it is in, and `<name> has joined #r` goes to
\* every other member of r and not to the client; a chunk with '#' sets no
\* name.
Thm_C32_NameJoinsOwnRoom ==
    [][\A c \in Clients : \A chunk \in TalkChunks(c) :
         (PassesChecks(c) /\ FromUnnamed(c, chunk))
         => IF StartsWithHash(chunk)
            THEN g_client_names' = g_client_names
            ELSE RegisteredIn(c, chunk, GetClientRoom(client_rooms, c))]_vars

\* a client in general has just registered its name, and the notice went to
\* the other client, which is in general too
Wit_C32_NameAnnounced ==
    /\ last.op = "name"
    /\ last.id \in DOMAIN g_client_names
    /\ g_client_names[last.id] = last.name
    /\ GetClientRoom(client_rooms, last.id) = "general"
    /\ ~out.stored
    /\ \E m \in Clients \ {last.id} :
          out.sent = {Line(m, "line", last.name \o " has joined #general" \o LF)}

\* C33: once a chunk of a client has been registered as its name, every later
\* chunk without '#' from it that passes the rate and mute checks is stored
\* and broadcast as chat and is never registered as a name again.
Cex_C33_NamedForGood ==
    [][\A c \in Clients : \A chunk \in TalkChunks(c) :
         (/\ c \in DOMAIN g_client_names
          /\ PassesChecks(c)
          /\ ~OnlyTerminators(chunk)
          /\ ~StartsWithHash(chunk)
          /\ TalkMessage(c, chunk))
         => /\ g_client_names' = g_client_names
            /\ out'.stored
            /\ last'.op = "text"]_vars


\* ------------------------------------------------------------------------
\* IOCPServer::Stop called by the console handler and by the destructor
\* ------------------------------------------------------------------------
ConsoleThread == 1     \* the thread the console control handler runs on
MainThread    == 2     \* main, which runs ~IOCPServer from g_server.reset()

stopFrame == <<roomVars, rooms_mutex, last, next_client_id, io, stop_pc, tasks,
               stop, writes, critical, calls, executed, wk, g_client_names,
               current_connections,
               last_activity, fired, welcomed, disconnected, delivered, cmVars>>

\* ConsoleHandler: g_running = false, then g_server->Stop()
ConsoleHandler ==
    /\ rpc[ConsoleThread].pc = "idle"
    /\ g_running' = FALSE
    /\ At(ConsoleThread, "check", 0)
    /\ UNCHANGED <<running, clients, closes, stop_closed, io_workers,
                   listen_socket, completion_port, close_calls, stopFrame>>

\* main: the loop `while (g_running && g_server->IsRunning())` ends, and
\* g_server.reset() runs ~IOCPServer, which calls Stop()
MainReset ==
    /\ rpc[MainThread].pc = "idle"
    /\ ~(g_running /\ running)
    /\ At(MainThread, "check", 0)
    /\ UNCHANGED <<running, g_running, clients, closes, stop_closed, io_workers,
                   listen_socket, completion_port, close_calls, stopFrame>>

\* a step of Stop that moves thread t to pc and writes none of the handles
StopGoto(t, pc, i) ==
    /\ At(t, pc, i)
    /\ UNCHANGED <<running, g_running, clients, closes, stop_closed, io_workers,
                   listen_socket, completion_port, close_calls, stopFrame>>

\* Stop: if (!running.load()) return;
StopCheck(t) ==
    /\ rpc[t].pc = "check"
    /\ StopGoto(t, IF running THEN "store" ELSE "returned", 0)

\* Stop: running.store(false)
StopStore(t) ==
    /\ rpc[t].pc = "store"
    /\ running' = FALSE
    /\ At(t, "listen", 0)
    /\ UNCHANGED <<g_running, clients, closes, stop_closed, io_workers,
                   listen_socket, completion_port, close_calls, stopFrame>>

\* Stop: if (listen_socket != INVALID_SOCKET)
StopListenCheck(t) ==
    /\ rpc[t].pc = "listen"
    /\ StopGoto(t, IF listen_socket # NoHandle THEN "closesocket"
                   ELSE "joinable", 1)

\* Stop: closesocket(listen_socket); listen_socket = INVALID_SOCKET; then the
\* wake-up packets are posted
StopListenClose(t) ==
    /\ rpc[t].pc = "closesocket"
    /\ close_calls' = [close_calls EXCEPT ![ListenHandle] = @ + 1]
    /\ listen_socket' = NoHandle
    /\ At(t, "joinable", 1)
    /\ UNCHANGED <<running, g_running, clients, closes, stop_closed, io_workers,
                   completion_port, stopFrame>>

\* what a thread reads from w32::Thread::handle of worker i: the handle, or,
\* once clear() has destroyed the element, whatever its storage holds
ReadsHandle(i) ==
    IF i \in DOMAIN io_workers THEN {io_workers[i]}
    ELSE {NoHandle, ThreadHandle(i)}

\* Stop: the loop over io_workers (its end fixed when the loop starts):
\* if (worker.joinable())
StopJoinable(t) ==
    /\ rpc[t].pc = "joinable"
    /\ IF rpc[t].id > NumIOWorkers
       THEN StopGoto(t, "clear", 0)
       ELSE \E h \in ReadsHandle(rpc[t].id) :
                IF h # NoHandle THEN StopGoto(t, "join", rpc[t].id)
                ELSE StopGoto(t, "joinable", rpc[t].id + 1)

\* w32::Thread::join: if (joinable()) WaitForSingleObject(handle, INFINITE)
StopJoin(t) ==
    /\ rpc[t].pc = "join"
    /\ \E h \in ReadsHandle(rpc[t].id) :
          IF h # NoHandle THEN StopGoto(t, "waited", rpc[t].id)
          ELSE StopGoto(t, "joinable", rpc[t].id + 1)

\* w32::Thread::join: CloseHandle(handle); handle = NULL
StopJoinClose(t) ==
    LET i == rpc[t].id IN
    /\ rpc[t].pc = "waited"
    /\ close_calls' = [close_calls EXCEPT ![ThreadHandle(i)] = @ + 1]
    /\ io_workers' = IF i \in DOMAIN io_workers
                     THEN [io_workers EXCEPT ![i] = NoHandle]
                     ELSE io_workers
    /\ At(t, "joinable", i + 1)
    /\ UNCHANGED <<running, g_running, clients, closes, stop_closed,
                   listen_socket, completion_port, stopFrame>>

\* Stop: io_workers.clear(); ~Thread closes a handle that is not NULL
StopClear(t) ==
    /\ rpc[t].pc = "clear"
    /\ close_calls' =
           [h \in Handles |->
               IF \E i \in DOMAIN io_workers : io_workers[i] = h
               THEN close_calls[h] + 1 ELSE close_calls[h]]
    /\ io_workers' = [i \in {} |-> NoHandle]
    /\ At(t, "clients", 0)
    /\ UNCHANGED <<running, g_running, clients, closes, stop_closed,
                   listen_socket, completion_port, stopFrame>>

\* Stop: "Close all client connections", under clients_mutex
StopCloseClients(t) ==
    /\ rpc[t].pc = "clients"
    /\ closes' = [c \in DOMAIN closes |-> IF c \in clients THEN closes[c] + 1
                                          ELSE closes[c]]
    /\ clients' = {}
    /\ stop_closed' = stop_closed \cup clients
    /\ At(t, "port", 0)
    /\ UNCHANGED <<running, g_running, io_workers, listen_socket,
                   completion_port, close_calls, stopFrame>>

\* Stop: if (completion_port != INVALID_HANDLE_VALUE)
StopPortCheck(t) ==
    /\ rpc[t].pc = "port"
    /\ StopGoto(t, IF completion_port # NoHandle THEN "closehandle"
                   ELSE "returned", 0)

\* Stop: CloseHandle(completion_port); completion_port = INVALID_HANDLE_VALUE
StopPortClose(t) ==
    /\ rpc[t].pc = "closehandle"
    /\ close_calls' = [close_calls EXCEPT ![PortHandle] = @ + 1]
    /\ completion_port' = NoHandle
    /\ At(t, "returned", 0)
    /\ UNCHANGED <<running, g_running, clients, closes, stop_closed, io_workers,
                   listen_socket, stopFrame>>

InitStop == InitRoomManager /\ InitServer /\ InitPolicy

NextStop ==
    \/ \E c \in Clients : HandleAccept(c)
    \/ ConsoleHandler
    \/ MainReset
    \/ \E t \in {ConsoleThread, MainThread} :
          \/ StopCheck(t)
          \/ StopStore(t)
          \/ StopListenCheck(t)
          \/ StopListenClose(t)
          \/ StopJoinable(t)
          \/ StopJoin(t)
          \/ StopJoinClose(t)
          \/ StopClear(t)
          \/ StopCloseClients(t)
          \/ StopPortCheck(t)
          \/ StopPortClose(t)

SpecStop == InitStop /\ [][NextStop]_vars

\* C31: with Stop called by the console handler and by the destructor, one
\* after the other or at the same time, no client socket and no other handle
\* of the server is closed twice, no I/O worker is joined twice, and when both
\* calls have returned the server is stopped.
Cex_C31_StopIdempotent ==
    /\ \A c \in Clients : closes[c] <= 1
    /\ \A h \in Handles : close_calls[h] <= 1
    /\ (\A t \in {ConsoleThread, MainThread} : rpc[t].pc = "returned")
       => /\ ~running
          /\ clients = {}
          /\ listen_socket = NoHandle
          /\ completion_port = NoHandle


\* ------------------------------------------------------------------------
\* IOCPServer::Send, PostWrite and the completion of the writes
\* ------------------------------------------------------------------------
MaxWrites == 2         \* writes of one client posted and not yet completed

\* what WSASend answers: the write is done or pending (a completion follows),
\* or it has failed at once
WriteResults == {"posted", "failed"}

sendFrame == <<roomVars, rooms_mutex, rpc, running, next_client_id, stop_pc,
               stop, io_workers, listen_socket, completion_port, close_calls,
               critical, calls, executed, wk, g_running, g_client_names,
               current_connections, last_activity, welcomed, disconnected,
               delivered, stop_closed, cmVars>>

\* Send: false for an id that is not in the table; otherwise PostWrite, which
\* on a WSASend error other than WSA_IO_PENDING only frees the operation
Send(c, result) ==
    /\ running
    /\ writes[c] < MaxWrites
    /\ last' = Done("Send", result, c, c \in clients)
    /\ writes' = IF c \in clients /\ result = "posted"
                 THEN [writes EXCEPT ![c] = @ + 1] ELSE writes
    /\ UNCHANGED <<clients, closes, io, tasks, fired, sendFrame>>

\* IOCPWorkerThread: a WRITE completion; HandleWrite frees the operation
HandleWrite(c) ==
    /\ running
    /\ writes[c] > 0
    /\ writes' = [writes EXCEPT ![c] = @ - 1]
    /\ UNCHANGED <<last, clients, closes, io, tasks, fired, sendFrame>>

\* IOCPWorkerThread: a WRITE fails at its completion ("I/O operation
\* failed"): CleanupClient
WriteFailed(c) ==
    /\ running
    /\ writes[c] > 0
    /\ writes' = [writes EXCEPT ![c] = @ - 1]
    /\ CleanupClient(c, io)
    /\ UNCHANGED <<last, sendFrame>>

InitSend == InitRoomManager /\ InitServer /\ InitPolicy

NextSend ==
    \/ \E c \in Clients : HandleAccept(c)
    \/ \E c \in Clients : ReadClosed(c)
    \/ \E c \in Clients, result \in WriteResults : Send(c, result)
    \/ \E c \in Clients : HandleWrite(c)
    \/ \E c \in Clients : WriteFailed(c)

SpecSend == InitSend /\ [][NextSend]_vars

\* the step removes client c from the table and queues on_disconnect for it
RemovedAndFired(c) ==
    /\ c \notin clients'
    /\ fired'[c] = fired[c] + 1

\* C36: Send returns true exactly for a registered id; and a write to a
\* registered client that fails, when it is posted or at its completion,
\* removes the client from the table and fires on_disconnect for it.
Cex_C36_FailedWriteCleansUp ==
    [][\A c \in Clients :
         /\ \A result \in WriteResults :
               Send(c, result) => last'.ret = (c \in clients)
         /\ (c \in clients /\ Send(c, "failed")) => RemovedAndFired(c)
         /\ (c \in clients /\ WriteFailed(c)) => RemovedAndFired(c)]_vars


\* ------------------------------------------------------------------------
\* ThreadPool on its own: enqueue, the worker loop, shutdown
\* ------------------------------------------------------------------------
MaxTasks == 3          \* calls of ThreadPool::enqueue over a run

\* a task returns or throws
TaskKinds == {"returns", "throws"}

\* the record kept of the task of one enqueue call: whether enqueue put it
\* in the queue, and how many times a worker has run it
Job(accepted, runs) == [accepted |-> accepted, runs |-> runs]

poolFrame == <<roomVars, rooms_mutex, last, running, next_client_id, clients,
               closes, io, stop_pc, io_workers, listen_socket, completion_port,
               close_calls, writes, critical, calls, g_running, g_client_names,
               current_connections, last_activity, fired, welcomed,
               disconnected, delivered, stop_closed, cmVars>>

\* enqueue, called by the transport threads: under queue_mutex, return when
\* stop is set, else push
PoolEnqueue(kind) ==
    /\ Len(executed) < MaxTasks
    /\ tasks' = Enqueue(tasks, stop, Task(kind, Len(executed) + 1, NoChunk))
    /\ executed' = Append(executed, Job(~stop, 0))
    /\ UNCHANGED <<stop, wk, rpc, poolFrame>>

\* worker loop: the wait ends with a task in the queue; pop it
PoolPop(w) ==
    /\ wk[w].pc = "idle"
    /\ tasks # <<>>
    /\ tasks' = Tail(tasks)
    /\ wk' = [wk EXCEPT ![w] = [pc |-> "task", kind |-> Head(tasks).kind,
                                client |-> Head(tasks).client,
                                chunk |-> NoChunk, room |-> ""]]
    /\ UNCHANGED <<stop, executed, rpc, poolFrame>>

Mut_AfterTask(kind) == IF kind = "throws" THEN "exited" ELSE "idle"

\* worker loop: where the worker is after task(): both catch clauses fall
\* through to the next round of the loop
AfterTask(kind) == "idle"

\* worker loop: task() runs to its end or throws
PoolRun(w) ==
    /\ wk[w].pc = "task"
    /\ executed' = [executed EXCEPT ![wk[w].client].runs = @ + 1]
    /\ wk' = [wk EXCEPT ![w] = [IdleWorker EXCEPT !.pc = AfterTask(wk[w].kind)]]
    /\ UNCHANGED <<tasks, stop, rpc, poolFrame>>

\* worker loop: if (stop.load() && tasks.empty()) return
PoolExit(w) ==
    /\ wk[w].pc = "idle"
    /\ stop
    /\ tasks = <<>>
    /\ wk' = [wk EXCEPT ![w].pc = "exited"]
    /\ UNCHANGED <<tasks, stop, executed, rpc, poolFrame>>

\* shutdown, called by ~ThreadPool on main: stop.store(true) under
\* queue_mutex, notify_all
ShutdownBegin ==
    /\ rpc[MainThread].pc = "idle"
    /\ ~stop
    /\ stop' = TRUE
    /\ At(MainThread, "join", 1)
    /\ UNCHANGED <<tasks, wk, executed, last, poolFrame>>

\* shutdown: worker.join() for the next worker, and the return after the last
ShutdownJoin ==
    LET i == rpc[MainThread].id IN
    /\ rpc[MainThread].pc = "join"
    /\ wk[i].pc = "exited"
    /\ At(MainThread, IF i = NumPoolWorkers THEN "returned" ELSE "join", i + 1)
    /\ UNCHANGED <<tasks, stop, wk, executed, last, poolFrame>>

InitPool == InitRoomManager /\ InitServer /\ InitPolicy

NextPool ==
    \/ \E kind \in TaskKinds : PoolEnqueue(kind)
    \/ \E w \in PoolWorkers : PoolPop(w)
    \/ \E w \in PoolWorkers : PoolRun(w)
    \/ \E w \in PoolWorkers : PoolExit(w)
    \/ ShutdownBegin
    \/ ShutdownJoin

SpecPool == InitPool /\ [][NextPool]_vars

\* the workers are threads of their own and every task terminates; main is
\* scheduled too once it is inside shutdown
FairPool ==
    /\ SpecPool
    /\ \A w \in PoolWorkers :
          WF_vars(PoolPop(w)) /\ WF_vars(PoolRun(w)) /\ WF_vars(PoolExit(w))
    /\ WF_vars(ShutdownJoin)

ShutdownReturned == rpc[MainThread].pc = "returned"

\* no task is run twice, a dropped task is never run nor queued, and once
\* shutdown has returned the queue is empty, every worker has exited and
\* every accepted task has run
PoolSafe ==
    /\ \A id \in DOMAIN executed :
          /\ executed[id].runs <= 1
          /\ ~executed[id].accepted
             => /\ executed[id].runs = 0
                /\ \A i \in DOMAIN tasks : tasks[i].client # id
                /\ \A w \in PoolWorkers : wk[w].client # id
    /\ ShutdownReturned
       => /\ tasks = <<>>
          /\ \A w \in PoolWorkers : wk[w].pc = "exited"
          /\ \A id \in DOMAIN executed :
                executed[id].accepted => executed[id].runs = 1

\* C37: a task that enqueue has accepted is run exactly once, also after
\* tasks that threw; shutdown returns, and only with the queue empty and all
\* workers gone; a task enqueued after stop is set is dropped and never run.
Thm_C37_PoolDrains ==
    /\ []PoolSafe
    /\ \A id \in 1..MaxTasks :
          (id \in DOMAIN executed /\ executed[id].accepted)
             ~> (id \in DOMAIN executed /\ executed[id].runs = 1)
    /\ stop ~> ShutdownReturned

\* shutdown has returned; the first task threw, a task accepted after it has
\* run once, and the task enqueued after shutdown began was dropped
Wit_C37_ThrowThenRun ==
    /\ ShutdownReturned
    /\ Len(executed) = 3
    /\ executed[1] = Job(TRUE, 1)
    /\ executed[2] = Job(TRUE, 1)
    /\ executed[3] = Job(FALSE, 0)
    /\ \A w \in PoolWorkers : wk[w].pc = "exited"


\* ------------------------------------------------------------------------
\* The application locks: every operation that takes a w32::Mutex, as the
\* sequence of its LockGuard constructions and destructions
\* ------------------------------------------------------------------------
Lock(m)   == <<"lock", m>>
Unlock(m) == <<"unlock", m>>

\* IOCPServer::Send and Broadcast: PostWrite locks clients_mutex again
SendLocks ==
    <<Lock("clients_mutex"), Lock("clients_mutex"),
      Unlock("clients_mutex"), Unlock("clients_mutex")>>

\* IOCPServer::HandleAccept, HandleRead and CleanupClient: the table under
\* clients_mutex, then ThreadPool::enqueue under queue_mutex
CleanupLocks ==
    <<Lock("clients_mutex"), Unlock("clients_mutex"),
      Lock("queue_mutex"), Unlock("queue_mutex")>>

\* MessageStore::Store: the cache, then WriteToFile, whose RotateLogFile
\* calls OpenLogFile under file_mutex
StoreLocks ==
    <<Lock("cache_mutex"), Unlock("cache_mutex"),
      Lock("file_mutex"), Lock("file_mutex"),
      Unlock("file_mutex"), Unlock("file_mutex")>>

\* ConnectionManager::RecordMessage: UpdateActivity under message_mutex
RecordLocks ==
    <<Lock("message_mutex"), Lock("activity_mutex"),
      Unlock("activity_mutex"), Unlock("message_mutex")>>

\* ConnectionManager::AllowMessage: IsMuted, then the window
AllowMessageLocks ==
    <<Lock("mute_mutex"), Unlock("mute_mutex"),
      Lock("message_mutex"), Unlock("message_mutex")>>

\* ConnectionManager::AllowConnection: IsBanned, then the window
AllowConnectionLocks ==
    <<Lock("ban_mutex"), Unlock("ban_mutex"),
      Lock("rate_mutex"), Unlock("rate_mutex")>>

\* main's sweep: GetAllClients, CheckTimeouts, DisconnectClient
SweepLocks ==
    <<Lock("clients_mutex"), Unlock("clients_mutex"),
      Lock("activity_mutex"), Unlock("activity_mutex")>> \o CleanupLocks

\* an operation that holds one mutex from its first line to its last
Alone(m) == <<Lock(m), Unlock(m)>>

Operations ==
    {"Send", "CleanupClient", "Store", "RecordMessage", "AllowMessage",
     "AllowConnection", "sweep", "JoinRoom", "GetClientName", "worker"}

LocksOf(op) ==
    CASE op = "Send"            -> SendLocks
      [] op = "CleanupClient"   -> CleanupLocks
      [] op = "Store"           -> StoreLocks
      [] op = "RecordMessage"   -> RecordLocks
      [] op = "AllowMessage"    -> AllowMessageLocks
      [] op = "AllowConnection" -> AllowConnectionLocks
      [] op = "sweep"           -> SweepLocks
      [] op = "JoinRoom"        -> Alone("rooms_mutex")
      [] op = "GetClientName"   -> Alone("g_clients_mutex")
      [] op = "worker"          -> Alone("queue_mutex")

nestFrame == <<roomVars, apiVars, running, next_client_id, clients, closes, io,
               stop_pc, tasks, stop, io_workers, listen_socket, completion_port,
               close_calls, writes, executed, wk, g_running, g_client_names,
               current_connections, last_activity, fired, welcomed,
               disconnected, delivered, stop_closed, cmVars>>

\* the next LockGuard step of thread t: <<"lock", m>>, <<"unlock", m>>, or
\* <<"return", "">> after the last
NextStep(t) ==
    IF calls[t].op = "" THEN <<"idle", "">>
    ELSE IF calls[t].i > Len(LocksOf(calls[t].op)) THEN <<"return", "">>
    ELSE LocksOf(calls[t].op)[calls[t].i]

Mut_CanEnter(section, t) == section.owner = NoThread

\* EnterCriticalSection returns when the section is free or owned by the
\* calling thread
CanEnter(section, t) == section.owner = NoThread \/ section.owner = t

\* a thread starts an operation
NestCall(t, op) ==
    /\ calls[t] = NoCall
    /\ calls' = [calls EXCEPT ![t] = InCall(op, 1)]
    /\ UNCHANGED <<critical, nestFrame>>

\* LockGuard::LockGuard: EnterCriticalSection
NestLock(t) ==
    LET m == NextStep(t)[2] IN
    /\ NextStep(t)[1] = "lock"
    /\ CanEnter(critical[m], t)
    /\ critical' = [critical EXCEPT ![m] = Section(t, @.count + 1)]
    /\ calls' = [calls EXCEPT ![t].i = @ + 1]
    /\ UNCHANGED nestFrame

\* LockGuard::~LockGuard: LeaveCriticalSection
NestUnlock(t) ==
    LET m == NextStep(t)[2] IN
    /\ NextStep(t)[1] = "unlock"
    /\ critical' = [critical EXCEPT ![m] =
                       IF @.count = 1 THEN Section(NoThread, 0)
                       ELSE Section(@.owner, @.count - 1)]
    /\ calls' = [calls EXCEPT ![t].i = @ + 1]
    /\ UNCHANGED nestFrame

\* the operation returns
NestReturn(t) ==
    /\ NextStep(t)[1] = "return"
    /\ calls' = [calls EXCEPT ![t] = NoCall]
    /\ UNCHANGED <<critical, nestFrame>>

InitNest == InitRoomManager /\ InitServer /\ InitPolicy

NextNest ==
    \/ \E t \in LockThreads, op \in Operations : NestCall(t, op)
    \/ \E t \in LockThreads : NestLock(t)
    \/ \E t \in LockThreads : NestUnlock(t)
    \/ \E t \in LockThreads : NestReturn(t)

SpecNest == InitNest /\ [][NextNest]_vars

\* thread t waits in EnterCriticalSection
Blocked(t) ==
    /\ NextStep(t)[1] = "lock"
    /\ ~CanEnter(critical[NextStep(t)[2]], t)

\* a set of threads each of which waits for a mutex that one of them owns
Deadlocked ==
    \E S \in SUBSET LockThreads \ {{}} :
        \A t \in S : Blocked(t) /\ critical[NextStep(t)[2]].owner \in S

\* C38: no state has a set of threads that wait for each other's locks; a
\* mutex is left by its owner only, as often as it was entered.
Thm_C38_NoDeadlock ==
    /\ ~Deadlocked
    /\ \A t \in LockThreads :
          NextStep(t)[1] = "unlock" => critical[NextStep(t)[2]].owner = t
    /\ \A m \in AppMutexes :
          (critical[m].owner = NoThread) = (critical[m].count = 0)

\* one thread is in PostWrite under Send, holding clients_mutex twice,
\* another waits for clients_mutex, and a third is in UpdateActivity under
\* RecordMessage
Wit_C38_NestedAndWaiting ==
    /\ critical["clients_mutex"].count = 2
    /\ \E t \in LockThreads : Blocked(t) /\ NextStep(t)[2] = "clients_mutex"
    /\ critical["message_mutex"].owner # NoThread
    /\ critical["activity_mutex"].owner = critical["message_mutex"].owner


\* ------------------------------------------------------------------------
\* main's cleanup: the components are destroyed while the pool still runs
\* ------------------------------------------------------------------------
\* main, "Cleanup": the order of the reset() calls before g_thread_pool
Components ==
    <<"g_server", "g_message_store", "g_chat_rooms", "g_connection_manager">>

\* the components main has destroyed
DestroyedComponents ==
    CASE rpc[MainThread].pc = "reset" ->
            {Components[i] : i \in 1..rpc[MainThread].id}
      [] rpc[MainThread].pc \in {"join", "returned"} ->
            {Components[i] : i \in DOMAIN Components}
      [] OTHER -> {}

cleanupFrame == <<roomVars, rooms_mutex, last, running, next_client_id, clients,
                  closes, io, stop_pc, tasks, io_workers, listen_socket,
                  completion_port, close_calls, writes, critical, calls,
                  executed, wk, g_running, g_client_names, current_connections,
                  last_activity, fired, welcomed, disconnected, delivered,
                  stop_closed, cmVars>>

\* main: the loop has ended (the console handler has cleared g_running);
\* the next component is reset
MainResetNext ==
    /\ rpc[MainThread].pc \in {"idle", "reset"}
    /\ ~(g_running /\ running)
    /\ rpc[MainThread].id < Len(Components)
    /\ At(MainThread, "reset", rpc[MainThread].id + 1)
    /\ UNCHANGED <<stop, cleanupFrame>>

\* main: g_thread_pool.reset(); ~ThreadPool calls shutdown, which sets stop
MainResetPool ==
    /\ rpc[MainThread].pc = "reset"
    /\ rpc[MainThread].id = Len(Components)
    /\ stop' = TRUE
    /\ At(MainThread, "join", 1)
    /\ UNCHANGED cleanupFrame

InitCleanup == InitRoomManager /\ InitServer /\ InitPolicy

NextCleanup ==
    \/ \E c \in Clients : HandleAccept(c)
    \/ \E c \in Clients : ReadClosed(c)
    \/ \E w \in PoolWorkers :
          \/ PoolTake(w)
          \/ ConnAllow(w)
          \/ ConnJoin(w)
          \/ ConnWelcome(w)
          \/ DiscRead(w)
          \/ DiscLeave(w)
          \/ PoolExit(w)
    \/ \E s \in Stoppers : StopEnter(s) \/ StopClose(s)
    \/ MainResetNext
    \/ MainResetPool
    \/ ShutdownJoin

SpecCleanup == InitCleanup /\ [][NextCleanup]_vars

\* pool worker w takes a step of a dispatcher callback
InCallback(w) ==
    /\ wk[w].pc \notin {"idle", "exited"}
    /\ wk'[w] # wk[w]

\* C40: no pool worker executes a step of HandleConnect, HandleMessage or
\* HandleDisconnect once main has destroyed the server, the message store,
\* the room manager or the connection manager.
Cex_C40_NoCallbackAfterReset ==
    [][\A w \in PoolWorkers : InCallback(w) => DestroyedComponents = {}]_vars

====
